---- MODULE Spec2Model ----
(***************************************************************************)
(* Host orchestrator of the BFS on a fleet of DPUs (bfs-dpu/host/bfs.c).   *)
(*                                                                         *)
(* Conventions.                                                            *)
(*  - A C array of uint32_t is a function over 0..len-1.                   *)
(*  - A bitset buffer (frontier, visited) is the set of the positions of   *)
(*    its set bits: bit b of word w is position 32*w + b.  Word-granular   *)
(*    copies are copies of position ranges [32*off, 32*(off+len)), the OR  *)
(*    of two words is the union of their positions.                        *)
(*  - A sparse uint32_t array (node_levels) is a function from the indices *)
(*    of its non-zero entries to their values; every other entry is 0.     *)
(***************************************************************************)
EXTENDS Integers, Sequences, FiniteSets, TLC

VARIABLES
  pc,      \* position of the host in main()
  cli,     \* the command line still to be parsed
  file,    \* the input file
  opt,     \* num_dpu, alg, prt, bin_path as left by parse_args
  fleet,   \* what has been asked of the DPU set so far
  coo,     \* the COO matrix returned by load_coo
  prts,    \* the partitions returned by partition_coo
  dpu,     \* per-DPU memory: host-visible symbols and MRAM buffers
  host,    \* locals of bfs_xxx / start_xxx / print_node_levels
  out,     \* lines written to the output file after the header
  fn       \* a function of bfs.c applied on its own: [op, arg, res]

vars == <<pc, cli, file, opt, fleet, coo, prts, dpu, host, out, fn>>

(***************************************************************************)
(* Bounds of the model.                                                    *)
(***************************************************************************)
MaxDpuMult == 2        \* unit counts 8, 16, ..., 8 * MaxDpuMult
MaxFactorN == 64       \* nearest_factors is applied to 1..MaxFactorN
MaxPadUnits == 4       \* load_coo padding: unit counts 8, 16, ..., 8 * MaxPadUnits
MaxPadNodes == 300     \* load_coo padding: node counts 0..MaxPadNodes
MaxPartEdges == 2      \* partition_coo: edge lists of at most this length
MaxDim == 3            \* coo_to_csr / coo_to_csc: num_rows, num_cols in 1..MaxDim
MaxCsrEdges == 2       \* coo_to_csr / coo_to_csc: edge lists of at most this length
MaxOpts == 3           \* command lines of at most this many options
MaxLevel == 3          \* print_node_levels: reported levels 0..MaxLevel

(***************************************************************************)
(* Program constants.                                                      *)
(***************************************************************************)
BLOCK_SIZE == 32

Algorithms == {"TopDown", "BottomUp", "Edge"}
Partitions == {"Row", "Col", "_2D"}

ROUND_UP_TO_MULTIPLE(x, y) == (((x - 1) \div y) + 1) * y

Range(f) == {f[i] : i \in DOMAIN f}

RECURSIVE SumOver(_, _)
SumOver(S, f) == IF S = {} THEN 0
                 ELSE LET x == CHOOSE y \in S : TRUE
                      IN f[x] + SumOver(S \ {x}, f)

\* for (i = lo; i < hi; ++i) acc = Body(i, acc), the range being run through as
\* its lower half followed by its upper half; the value after the lower half is
\* computed before the upper half is entered.
RECURSIVE ForLoop(_, _, _, _)
ForLoop(Body(_, _), lo, hi, acc) ==
  IF hi <= lo THEN acc
  ELSE IF hi = lo + 1 THEN Body(lo, acc)
  ELSE LET mid == (lo + hi) \div 2
           half == ForLoop(Body, lo, mid, acc)
       IN IF half = half THEN ForLoop(Body, mid, hi, half) ELSE acc

\* A C array built from a TLA+ sequence.
ArrayOf(s) == [i \in 0..(Len(s) - 1) |-> s[i + 1]]

\* All sequences over S of length lo..hi.
SeqsUpTo(S, lo, hi) == UNION {[1..k -> S] : k \in lo..hi}

(***************************************************************************)
(* nearest_factors                                                         *)
(***************************************************************************)
\* (uint32_t)sqrt(n): the integer part of the square root.
SqrtU32Ceil(n) == CHOOSE f \in 0..n : f * f >= n /\ (f = 0 \/ (f - 1) * (f - 1) < n)

SqrtU32(n) == CHOOSE f \in 0..n : f * f <= n /\ (f + 1) * (f + 1) > n

\* while (n % f != 0) f--;
RECURSIVE FactorLoop(_, _)
FactorLoop(n, f) == IF n % f # 0 THEN FactorLoop(n, f - 1) ELSE f

nearest_factors(n) ==
  LET f == FactorLoop(n, SqrtU32(n))
  IN [first |-> f, second |-> n \div f]

(***************************************************************************)
(* load_coo: padding of the node count                                     *)
(***************************************************************************)
ChunkPadTo8(chunk_size) ==
  IF chunk_size % 8 # 0 THEN chunk_size + (8 - (chunk_size % 8)) ELSE chunk_size

\* if (chunk_size % 32 != 0) chunk_size += 32 - chunk_size % 32;
ChunkPad(chunk_size) ==
  IF chunk_size % 32 # 0 THEN chunk_size + (32 - (chunk_size % 32)) ELSE chunk_size

\* The node count padded to a multiple of the unit count only.
PadNodesToN(num_nodes, n) ==
  IF num_nodes % n # 0 THEN num_nodes + (n - (num_nodes % n)) ELSE num_nodes

PadNodes(num_nodes, n) ==
  LET padded_n == IF num_nodes % n # 0 THEN num_nodes + (n - (num_nodes % n))
                  ELSE num_nodes
      chunk_size == padded_n \div n
  IN IF chunk_size % 32 # 0 THEN ChunkPad(chunk_size) * n ELSE padded_n

(***************************************************************************)
(* partition_coo                                                           *)
(***************************************************************************)
\* struct COO; alloc is the number of elements malloc'ed for the two arrays.
MkCOO(num_rows, num_cols, edges) ==
  [num_rows |-> num_rows, num_cols |-> num_cols, num_edges |-> Len(edges),
   row_idxs |-> [i \in 0..(Len(edges) - 1) |-> edges[i + 1][1]],
   col_idxs |-> [i \in 0..(Len(edges) - 1) |-> edges[i + 1][2]],
   alloc |-> Len(edges)]

\* The switch (prt): per-partition num_rows, num_cols and the grid.
PartDims(c, n, prt) ==
  CASE prt = "Row" ->
         [num_rows |-> c.num_rows \div n, num_cols |-> c.num_cols,
          row_div |-> n, col_div |-> 1, offset_row |-> TRUE, offset_col |-> FALSE]
    [] prt = "Col" ->
         [num_rows |-> c.num_rows, num_cols |-> c.num_cols \div n,
          row_div |-> 1, col_div |-> n, offset_row |-> FALSE, offset_col |-> TRUE]
    [] prt = "_2D" ->
         LET f == nearest_factors(n)
         IN [num_rows |-> c.num_rows \div f.first, num_cols |-> c.num_cols \div f.second,
             row_div |-> f.first, col_div |-> f.second,
             offset_row |-> TRUE, offset_col |-> TRUE]

\* First pass: the partition whose num_edges is incremented for an edge.
CountIndex(prt, d, row_idx, col_idx) ==
  CASE prt = "Row" -> row_idx \div d.num_rows
    [] prt = "Col" -> col_idx \div d.num_cols
    [] prt = "_2D" -> (row_idx \div d.num_rows) * d.col_div + (col_idx \div d.num_cols)

\* Second pass: the partition an edge is appended to.
BinIndexColMajor(prt, d, row_idx, col_idx) ==
  IF prt = "Row" THEN row_idx \div d.num_rows
  ELSE IF prt = "Col" THEN col_idx \div d.num_cols
  ELSE (col_idx \div d.num_cols) * d.row_div + (row_idx \div d.num_rows)

BinIndex(prt, d, row_idx, col_idx) ==
  IF prt = "Row" THEN row_idx \div d.num_rows
  ELSE IF prt = "Col" THEN col_idx \div d.num_cols
  ELSE (row_idx \div d.num_rows) * d.col_div + (col_idx \div d.num_cols)

CountPass(c, n, prt, d) ==
  [p \in 0..(n - 1) |->
     Cardinality({i \in 0..(c.num_edges - 1) :
                    CountIndex(prt, d, c.row_idxs[i], c.col_idxs[i]) = p})]

\* for (i = 0; i < coo.num_edges; ++i) append edge i at prts[p].num_edges.
BinPass(c, prt, d, prts0) ==
  ForLoop(LAMBDA i, acc :
            LET p == BinIndex(prt, d, c.row_idxs[i], c.col_idxs[i])
                idx == acc[p].num_edges
            IN [acc EXCEPT ![p] = [@ EXCEPT !.row_idxs = (idx :> c.row_idxs[i]) @@ @,
                                            !.col_idxs = (idx :> c.col_idxs[i]) @@ @,
                                            !.num_edges = idx + 1]],
          0, c.num_edges, prts0)

RowOffset(d, p) == IF d.offset_row THEN (p \div d.col_div) * d.num_rows ELSE 0

ColOffset(d, p) == IF d.offset_col THEN (p % d.col_div) * d.num_cols ELSE 0

partition_coo(c, n, prt) ==
  LET d == PartDims(c, n, prt)
      counts == CountPass(c, n, prt, d)
      empty == [p \in 0..(n - 1) |->
                  [num_rows |-> d.num_rows, num_cols |-> d.num_cols, num_edges |-> 0,
                   row_idxs |-> <<>>, col_idxs |-> <<>>, alloc |-> counts[p]]]
      binned == BinPass(c, prt, d, empty)
  IN [p \in 0..(n - 1) |->
        [binned[p] EXCEPT
           !.row_idxs = [i \in DOMAIN @ |-> @[i] - RowOffset(d, p)],
           !.col_idxs = [i \in DOMAIN @ |-> @[i] - ColOffset(d, p)]]]

(***************************************************************************)
(* coo_to_csr, coo_to_csc                                                  *)
(***************************************************************************)
\* Histogram row_idxs: row_ptrs is calloc'ed with num_rows + 1 entries.
CsrHistogram(c) ==
  [r \in 0..c.num_rows |->
     Cardinality({i \in 0..(c.num_edges - 1) : c.row_idxs[i] = r})]

\* Prefix sum: row_ptrs[r] becomes the number of edges of the rows before r.
CsrPrefixSum(num_rows, row_ptrs) ==
  LET r == ForLoop(LAMBDA row_idx, acc :
                     [row_ptrs |-> [acc.row_ptrs EXCEPT ![row_idx] = acc.sum_before_next_row],
                      sum_before_next_row |-> acc.sum_before_next_row + acc.row_ptrs[row_idx]],
                   0, num_rows, [row_ptrs |-> row_ptrs, sum_before_next_row |-> 0])
  IN [r.row_ptrs EXCEPT ![num_rows] = r.sum_before_next_row]

\* Bin the nonzeros: nnzIdx = row_ptrs[row_idx]++; col_idxs[nnzIdx] = coo.col_idxs[i].
CsrBin(c, row_ptrs) ==
  ForLoop(LAMBDA i, acc :
            LET row_idx == c.row_idxs[i]
                nnzIdx == acc.row_ptrs[row_idx]
            IN [row_ptrs |-> [acc.row_ptrs EXCEPT ![row_idx] = @ + 1],
                col_idxs |-> (nnzIdx :> c.col_idxs[i]) @@ acc.col_idxs],
          0, c.num_edges, [row_ptrs |-> row_ptrs, col_idxs |-> <<>>])

\* Restore rowPtrs, ascending instead of descending.
CsrRestoreAsc(num_rows, row_ptrs) ==
  [ForLoop(LAMBDA k, acc : [acc EXCEPT ![k + 1] = acc[k]], 0, num_rows - 1, row_ptrs)
     EXCEPT ![0] = 0]

\* for (row_idx = num_rows - 1; row_idx > 0; --row_idx)
\*   row_ptrs[row_idx] = row_ptrs[row_idx - 1];
\* row_ptrs[0] = 0;
CsrRestore(num_rows, row_ptrs) ==
  [ForLoop(LAMBDA k, acc : [acc EXCEPT ![num_rows - 1 - k] = acc[num_rows - 2 - k]],
           0, num_rows - 1, row_ptrs)
     EXCEPT ![0] = 0]

coo_to_csr(c) ==
  LET summed == CsrPrefixSum(c.num_rows, CsrHistogram(c))
      binned == CsrBin(c, summed)
  IN [num_rows |-> c.num_rows, num_cols |-> c.num_cols, num_edges |-> c.num_edges,
      row_ptrs |-> CsrRestore(c.num_rows, binned.row_ptrs),
      col_idxs |-> binned.col_idxs]

\* The transposed COO handed to coo_to_csr.
CooTranspose(c) ==
  [num_rows |-> c.num_cols, num_cols |-> c.num_rows, num_edges |-> c.num_edges,
   row_idxs |-> c.col_idxs, col_idxs |-> c.row_idxs, alloc |-> c.alloc]

\* coo_to_csc without the relabelling of num_rows / num_cols.
coo_to_cscNoRelabel(c) ==
  LET csr == coo_to_csr(CooTranspose(c))
  IN [num_rows |-> csr.num_rows, num_cols |-> csr.num_cols, num_edges |-> c.num_edges,
      col_ptrs |-> csr.row_ptrs, row_idxs |-> csr.col_idxs]

coo_to_csc(c) ==
  LET csr == coo_to_csr(CooTranspose(c))
  IN [num_rows |-> csr.num_cols, num_cols |-> csr.num_rows, num_edges |-> c.num_edges,
      col_ptrs |-> csr.row_ptrs, row_idxs |-> csr.col_idxs]

(***************************************************************************)
(* parse_args                                                              *)
(***************************************************************************)
\* What main() holds before parse_args: alg = TopDown, prt = Row, the global
\* num_dpu = 8, out_file = NULL, and a bin_path that is not initialised.
DefaultOpt ==
  [num_dpu |-> 8, alg |-> "TopDown", prt |-> "Row", bin_path |-> "uninitialised",
   out_file |-> "NULL", is_prt_set |-> FALSE, error |-> "none"]

\* atoi: the number a decimal string denotes, 0 for a string that is no number.
atoi(str) ==
  LET vals == {v \in 0..(8 * MaxDpuMult) : ToString(v) = str}
  IN IF vals = {} THEN 0 ELSE CHOOSE v \in vals : TRUE

\* case 'n': the test is (num_dpu == 0 || *num_dpu % 8 != 0), and num_dpu is the
\* pointer, never null: only the remainder decides.
ParseN(o, val) ==
  IF atoi(val) % 8 # 0 THEN [o EXCEPT !.error = "bad -n"]
  ELSE [o EXCEPT !.num_dpu = atoi(val)]

ParseA(o, val) ==
  CASE val = "top" ->
         [o EXCEPT !.bin_path = "bin/top-down-dma", !.alg = "TopDown",
                   !.prt = IF o.is_prt_set THEN @ ELSE "Row"]
    [] val = "bot" ->
         [o EXCEPT !.bin_path = "bin/bottom-up-dma", !.alg = "BottomUp",
                   !.prt = IF o.is_prt_set THEN @ ELSE "Col"]
    [] val = "edge" ->
         [o EXCEPT !.bin_path = "bin/edge-dma", !.alg = "Edge",
                   !.prt = IF o.is_prt_set THEN @ ELSE "_2D"]
    [] OTHER -> [o EXCEPT !.error = "bad -a"]

ParseP(o, val) ==
  CASE val = "row" -> [o EXCEPT !.prt = "Row", !.is_prt_set = TRUE]
    [] val = "col" -> [o EXCEPT !.prt = "Col", !.is_prt_set = TRUE]
    [] val = "2d" -> [o EXCEPT !.prt = "_2D", !.is_prt_set = TRUE]
    [] OTHER -> [o EXCEPT !.error = "bad -p"]

\* while ((c = getopt(...)) != -1) switch (c): the first error exits.
RECURSIVE ParseOpts(_, _, _)
ParseOpts(opts, k, o) ==
  IF k > Len(opts) \/ o.error # "none" THEN o
  ELSE ParseOpts(opts, k + 1,
         CASE opts[k].flag = "n" -> ParseN(o, opts[k].val)
           [] opts[k].flag = "a" -> ParseA(o, opts[k].val)
           [] opts[k].flag = "p" -> ParseP(o, opts[k].val)
           [] opts[k].flag = "o" -> [o EXCEPT !.out_file = opts[k].val]
           [] OTHER -> [o EXCEPT !.error = "bad args"])

parse_args(c) ==
  LET o == ParseOpts(c.opts, 1, DefaultOpt)
  IN IF o.error # "none" THEN o
     ELSE IF c.numargs # 1 THEN [o EXCEPT !.error = "numargs"]
     ELSE IF o.out_file = "NULL" THEN [o EXCEPT !.out_file = "/dev/null"]
     ELSE o

(***************************************************************************)
(* load_coo                                                                *)
(***************************************************************************)
\* A line of the file that fscanf("%u %u") reads two integers from: a line is
\* the tuple of the integers it starts with.
IsEdgeLine(l) == Len(l) >= 2

\* The reading of the edge lines: line 1 is read whatever num_edges is, then the
\* lines 2..num_edges.  The result is the number of the first line that is
\* missing or malformed, 0 when there is none.
FirstBadLine(f) ==
  LET last == IF f.num_edges > 1 THEN f.num_edges ELSE 1
      bad == {k \in 1..last : k > Len(f.lines) \/ ~IsEdgeLine(f.lines[k])}
  IN IF bad = {} THEN 0 ELSE CHOOSE k \in bad : \A j \in bad : k <= j

\* The configuration error load_coo exits with, "none" when it returns.
LoadError(f) ==
  IF ~f.exists THEN "missing file"
  ELSE IF ~f.header THEN "bad header"
  ELSE IF FirstBadLine(f) # 0 THEN "bad line"
  ELSE "none"

\* row_offset = row_idx of the first line; every index has it subtracted, in
\* uint32_t.  A 32-bit word is held as its representative in -2^31..2^31 - 1: a
\* difference below 0 is the word 2^32 + difference, which is above every node
\* count.
load_coo(f, n) ==
  LET total == PadNodes(f.num_nodes, n)
      row_offset == f.lines[1][1]
  IN [num_rows |-> total, num_cols |-> total, num_edges |-> f.num_edges,
      row_idxs |-> [i \in 0..(f.num_edges - 1) |-> f.lines[i + 1][1] - row_offset],
      col_idxs |-> [i \in 0..(f.num_edges - 1) |-> f.lines[i + 1][2] - row_offset],
      alloc |-> f.num_edges, old |-> f.num_nodes]

(***************************************************************************)
(* Bitset buffers and word-granular copies                                 *)
(***************************************************************************)
\* Words [off, off + w) of a host buffer of alloc words, as the positions
\* relative to word off.  A word at or past alloc is not the buffer's: it
\* reads as g, whatever lies behind the allocation.
HostWords(bits, alloc, off, w, g) ==
  {b - 32 * off : b \in {x \in bits : x >= 32 * off /\ x < 32 * (off + w) /\ x < 32 * alloc}}
    \cup {32 * (k - off) + x : k \in {j \in off..(off + w - 1) : j >= alloc}, x \in g}

\* The first w words of a buffer in MRAM.
MramWords(bits, w) == {b \in bits : b < 32 * w}

\* The buffer after w words at word off are overwritten with data.
PutWords(bits, off, w, data) ==
  {b \in bits : b < 32 * off \/ b >= 32 * (off + w)}
    \cup {b + 32 * off : b \in {x \in data : x < 32 * w}}

\* A buffer that is left as it is.
ClearNothing(bits, w) == bits

\* memset(buf, 0, 4 * w).
ClearWords(bits, w) == {b \in bits : b >= 32 * w}

\* Whether words [off, off + w) leave a buffer of alloc words.
OutOfBuffer(alloc, off, w) == w > 0 /\ off + w > alloc

\* Number of 32-bit words of ROUND_UP_TO_MULTIPLE(len * sizeof(uint32_t), 8) bytes.
XferWords(len) == ROUND_UP_TO_MULTIPLE(len * 4, 8) \div 4

\* What a word behind a host allocation may hold.
GarbageWords == {{}, {0}}

(***************************************************************************)
(* bfs_top_down, bfs_bottom_up, bfs_edge: metadata and population          *)
(***************************************************************************)
\* len_nl: the top-down kernel reports a level per source node of the unit, the
\* other two per destination node.
LenNl(alg, num_nodes, num_neighbors) ==
  IF alg = "TopDown" THEN num_nodes ELSE num_neighbors

BfsMeta(alg, prt, P, num_dpu) ==
  LET num_nodes == P[0].num_rows
      num_neighbors == P[0].num_cols
      f == nearest_factors(num_dpu)
      col_div == IF prt = "Row" THEN 1 ELSE IF prt = "Col" THEN num_dpu ELSE f.second
      total_nodes == IF prt = "Row" THEN num_neighbors
                     ELSE IF prt = "Col" THEN num_nodes
                     ELSE (num_nodes * num_dpu) \div col_div
  IN [num_nodes |-> num_nodes, num_neighbors |-> num_neighbors,
      len_cf |-> num_nodes \div 32, len_nf |-> num_neighbors \div 32,
      total_nodes |-> total_nodes, len_nl |-> LenNl(alg, num_nodes, num_neighbors),
      col_div |-> col_div, len_frontier |-> total_nodes \div 32,
      \* the third argument of print_node_levels
      div |-> IF alg = "TopDown" THEN col_div ELSE 1]

\* dpu_insert_mram_array_u32: the bytes copied and added to p_used_mram_end.
InsertSize(length) == LET size == length * 4 IN size + (size % 8)

\* The graph arrays of unit i, in the format of the algorithm's kernel.
UnitGraph(alg, part) ==
  CASE alg = "TopDown" ->
         LET csr == coo_to_csr(part)
         IN [node_ptrs |-> csr.row_ptrs, edges |-> csr.col_idxs]
    [] alg = "BottomUp" ->
         LET csc == coo_to_csc(part)
         IN [node_ptrs |-> csc.col_ptrs, edges |-> csc.row_idxs]
    [] alg = "Edge" ->
         [num_edges |-> part.num_edges, nodes |-> part.row_idxs,
          neighbors |-> part.col_idxs]

\* Lengths of the two variable-sized arrays inserted last.
GraphLengths(alg, m, part) ==
  CASE alg = "TopDown" -> <<m.num_nodes + 1, part.num_edges>>
    [] alg = "BottomUp" -> <<m.num_neighbors + 1, part.num_edges>>
    [] alg = "Edge" -> <<part.num_edges, part.num_edges>>

\* The root in the curr_frontier of the units of the first column of units.
HasRootCfFirstCol(i, col_div) == i % col_div = 0

\* The root is put in the curr_frontier of the units i < col_div ...
HasRootCf(i, col_div) == i < col_div

\* ... and in the next_frontier of the units with i % col_div = 0.
HasRootNf(i, col_div) == i % col_div = 0

\* The two arrays of the graph inserted before the buffers of the BFS.
InsertOrderGraphFirst ==
  <<"graph1", "graph2", "visited", "next_frontier", "curr_frontier", "node_levels">>

\* The calls of dpu_insert_mram_array_u32 for a unit, in their order: the four
\* buffers of the BFS, then the two arrays of the graph.
InsertOrder ==
  <<"visited", "next_frontier", "curr_frontier", "node_levels", "graph1", "graph2">>

\* The address an array is inserted at: p_used_mram_end, counted from the value
\* the kernel binary starts it with, after the insertions made before.
InsertAddr(name, lens) ==
  LET pos == CHOOSE k \in DOMAIN InsertOrder : InsertOrder[k] = name
  IN SumOver({k \in DOMAIN InsertOrder : k < pos},
             [k \in DOMAIN InsertOrder |-> InsertSize(lens[InsertOrder[k]])])

\* p_used_mram_end after the six insertions.
UsedMramEnd(lens) ==
  SumOver(DOMAIN InsertOrder, [k \in DOMAIN InsertOrder |-> InsertSize(lens[InsertOrder[k]])])

\* The body of the DPU_FOREACH population loop for unit i.
PopulateUnit(alg, m, part, i) ==
  LET lcf == ROUND_UP_TO_MULTIPLE(m.len_cf, BLOCK_SIZE)
      lnf == ROUND_UP_TO_MULTIPLE(m.len_nf, BLOCK_SIZE)
      lnl == ROUND_UP_TO_MULTIPLE(m.len_nl, BLOCK_SIZE)
      gl == GraphLengths(alg, m, part)
      lens == [visited |-> lnf, next_frontier |-> lnf, curr_frontier |-> lcf,
               node_levels |-> lnl, graph1 |-> gl[1], graph2 |-> gl[2]]
      frontier == {0}
  IN [level |-> 0, nf_updated |-> 0, len_nf |-> m.len_nf,
      len_cf |-> IF alg = "TopDown" THEN m.len_cf ELSE 0,
      ptr |-> [name \in Range(InsertOrder) |-> InsertAddr(name, lens)],
      p_used_mram_end |-> UsedMramEnd(lens),
      visited |-> {},
      next_frontier |-> IF HasRootNf(i, m.col_div) THEN MramWords(frontier, lnf) ELSE {},
      curr_frontier |-> IF HasRootCf(i, m.col_div) THEN MramWords(frontier, lcf) ELSE {},
      node_levels |-> <<>>,
      graph |-> UnitGraph(alg, part)]

\* The locals of start_row / start_col / start_2d before the first round.
StartLocals(prt, m, num_dpu, units) ==
  LET size_nf == XferWords(m.len_nf)
      size_cf == XferWords(m.len_cf)
      size_f == XferWords(m.len_frontier)
  IN [m |-> m, size_nf |-> size_nf, size_cf |-> size_cf,
      frontier |-> {},
      frontier_alloc |-> IF prt = "Row" THEN size_nf
                         ELSE IF prt = "Col" THEN size_cf ELSE size_f,
      nf_tmp |-> {},
      nf_tmp_alloc |-> IF prt = "Col" THEN 0 ELSE size_nf * num_dpu,
      nf_updated |-> [i \in 0..(num_dpu - 1) |-> 0],
      level |-> 0, done |-> TRUE,
      \* cached in the population loop: the pointers of the last unit
      nf_addr |-> units[num_dpu - 1].ptr.next_frontier,
      cf_addr |-> units[num_dpu - 1].ptr.curr_frontier,
      \* the number of launches and of set flags per round, for the properties
      \* and the buffers the last broadcast pushed to
      launches |-> 0, dirty |-> <<>>, oob |-> FALSE, pushed |-> {}, node_levels |-> <<>>]

(***************************************************************************)
(* The kernels (bfs-dpu/dpu), one launch of one unit.                      *)
(***************************************************************************)
\* node_levels[x] = level for the x of S.
Stamp(nl, S, level) ==
  IF level = 0 THEN [x \in (DOMAIN nl) \ S |-> nl[x]]
  ELSE [x \in (DOMAIN nl) \cup S |-> IF x \in S THEN level ELSE nl[x]]

\* Top-down: the nodes of next_frontier become visited; every node of
\* curr_frontier gets the level and its unvisited neighbours make the new
\* next_frontier.
TopDownKernel(u) ==
  LET nf == MramWords(u.next_frontier, u.len_nf)
      vis == u.visited \cup nf
      cf == MramWords(u.curr_frontier, u.len_cf)
      ks == UNION {u.graph.node_ptrs[r]..(u.graph.node_ptrs[r + 1] - 1) : r \in cf}
      found == {u.graph.edges[k] : k \in ks} \ vis
  IN [u EXCEPT !.visited = vis,
               !.next_frontier = (u.next_frontier \ nf) \cup found,
               !.nf_updated = IF found # {} THEN 1 ELSE 0,
               !.node_levels = Stamp(@, cf, u.level)]

\* Bottom-up: the new nodes of next_frontier get the level and become visited;
\* every unvisited node with a neighbour in curr_frontier makes the new
\* next_frontier.
BottomUpKernel(u) ==
  LET nf == MramWords(u.next_frontier, u.len_nf)
      vis == u.visited \cup nf
      found == {c \in (0..(32 * u.len_nf - 1)) \ vis :
                  \E k \in u.graph.node_ptrs[c]..(u.graph.node_ptrs[c + 1] - 1) :
                    u.graph.edges[k] \in u.curr_frontier}
  IN [u EXCEPT !.visited = vis,
               !.next_frontier = (u.next_frontier \ nf) \cup found,
               !.nf_updated = IF found # {} THEN 1 ELSE 0,
               !.node_levels = Stamp(@, nf \ u.visited, u.level)]

\* Edge-centric: as bottom-up, over the edge list.
EdgeKernel(u) ==
  LET nf == MramWords(u.next_frontier, u.len_nf)
      vis == u.visited \cup nf
      found == {u.graph.neighbors[k] :
                  k \in {j \in 0..(u.graph.num_edges - 1) :
                           u.graph.nodes[j] \in u.curr_frontier}} \ vis
  IN [u EXCEPT !.visited = vis,
               !.next_frontier = (u.next_frontier \ nf) \cup found,
               !.nf_updated = IF found # {} THEN 1 ELSE 0,
               !.node_levels = Stamp(@, nf \ u.visited, u.level)]

\* A kernel that forgets the nodes it visited in the rounds before.
KernelRevisits(alg, u) ==
  CASE alg = "TopDown" -> TopDownKernel([u EXCEPT !.visited = {}])
    [] alg = "BottomUp" -> BottomUpKernel([u EXCEPT !.visited = {}])
    [] alg = "Edge" -> EdgeKernel([u EXCEPT !.visited = {}])

Kernel(alg, u) ==
  CASE alg = "TopDown" -> TopDownKernel(u)
    [] alg = "BottomUp" -> BottomUpKernel(u)
    [] alg = "Edge" -> EdgeKernel(u)

(***************************************************************************)
(* start_row, start_col, start_2d: the steps of a round                    *)
(***************************************************************************)
\* The MRAM buffer of unit u at heap offset addr: its first w words.
MramAt(u, addr, w) ==
  IF addr = u.ptr.next_frontier THEN MramWords(u.next_frontier, w)
  ELSE IF addr = u.ptr.curr_frontier THEN MramWords(u.curr_frontier, w)
  ELSE {}

\* Unit u after w words are copied to heap offset addr.
MramStore(u, addr, w, data) ==
  IF addr = u.ptr.next_frontier THEN [u EXCEPT !.next_frontier = PutWords(@, 0, w, data)]
  ELSE IF addr = u.ptr.curr_frontier THEN [u EXCEPT !.curr_frontier = PutWords(@, 0, w, data)]
  ELSE u

Dirty(h, i) == h.nf_updated[i] = 1

\* Slices laid out by the size of a transfer.
FetchOffsetBySize(h, i) == i * h.size_nf

\* Host word at which unit i's next_frontier is fetched.
FetchOffset(h, i) == i * h.m.len_nf

\* for each unit in turn: if (nf_updated[i] == 1) fetch size_nf bytes of its
\* next_frontier to &buf[i * len_nf].
RECURSIVE FetchLoop(_, _, _, _, _)
FetchLoop(h, units, n, i, buf) ==
  IF i >= n THEN buf
  ELSE FetchLoop(h, units, n, i + 1,
                 IF Dirty(h, i)
                 THEN PutWords(buf, FetchOffset(h, i), h.size_nf,
                               MramAt(units[i], h.nf_addr, h.size_nf))
                 ELSE buf)

FetchNf(prt, h, units, n) ==
  LET any == \E i \in 0..(n - 1) : Dirty(h, i)
      alloc == IF prt = "Col" THEN h.frontier_alloc ELSE h.nf_tmp_alloc
      over == \E i \in 0..(n - 1) :
                Dirty(h, i) /\ OutOfBuffer(alloc, FetchOffset(h, i), h.size_nf)
  IN IF prt = "Col"
     THEN [h EXCEPT !.frontier = FetchLoop(h, units, n, 0, @),
                    !.done = IF any THEN FALSE ELSE @,
                    !.oob = @ \/ over]
     ELSE [h EXCEPT !.nf_tmp = FetchLoop(h, units, n, 0, @),
                    !.done = IF any THEN FALSE ELSE @,
                    !.oob = @ \/ over]

\* The offset without the wrap at the end of the frontier.
NfOffset2DNoWrap(h, i) == i * h.m.len_nf

\* Word of the global frontier that receives unit i's next_frontier in start_2d,
\* and from which unit i's next_frontier is refreshed.
NfOffset2D(h, i) == (i * h.m.len_nf) % h.m.len_frontier

\* The slice of the last unit alone: an assignment in the place of the |=.
ReduceRowAssign(h, n) ==
  HostWords(h.nf_tmp, h.nf_tmp_alloc, (n - 1) * h.m.len_nf, h.m.len_nf, {})

\* Row: frontier[c] |= nf_tmp[d * len_nf + c] for every unit d.
ReduceRow(h, n) ==
  h.frontier \cup UNION {HostWords(h.nf_tmp, h.nf_tmp_alloc, d * h.m.len_nf, h.m.len_nf, {}) :
                           d \in 0..(n - 1)}

\* 2D: frontier[i * len_nf % len_frontier + c] |= nf_tmp[i * len_nf + c] for
\* every unit i with nf_updated[i] set.
Reduce2D(h, n) ==
  h.frontier \cup
    UNION {{b + 32 * NfOffset2D(h, i) :
              b \in HostWords(h.nf_tmp, h.nf_tmp_alloc, i * h.m.len_nf, h.m.len_nf, {})} :
             i \in {j \in 0..(n - 1) : Dirty(h, j)}}

ReduceNf(prt, h, n) ==
  [h EXCEPT !.frontier = IF prt = "Row" THEN ReduceRow(h, n) ELSE Reduce2D(h, n)]

\* The test of the flag of the first unit alone.
ConvergedFirstUnit(prt, h, n) == ~Dirty(h, 0)

\* if (done) break;  /  if (num_updated_dpus == 0) break;
Converged(prt, h, n) ==
  IF prt = "_2D" THEN Cardinality({i \in 0..(n - 1) : Dirty(h, i)}) = 0
  ELSE h.done

\* ++level
NextLevelSame(level) == level

\* level += 2
NextLevelTwice(level) == level + 2

NextLevel(level) == level + 1

\* Word of the global frontier from which unit i's curr_frontier is refreshed.
CfOffsetLinear(prt, h, i) == i * h.m.len_cf

\* The slice of curr_frontier taken by the column of the unit in the grid.
CfOffsetByColumn(prt, h, i) ==
  CASE prt = "Row" -> i * h.m.len_cf
    [] prt = "Col" -> 0
    [] prt = "_2D" -> (i % h.m.col_div) * h.m.len_cf

CfOffset(prt, h, i) ==
  CASE prt = "Row" -> i * h.m.len_cf
    [] prt = "Col" -> 0
    [] prt = "_2D" -> (i \div h.m.col_div) * h.m.len_cf

\* The buffers of the broadcast as the specification lists them.
BroadcastTargetsListed(prt) ==
  CASE prt = "Row" -> {"curr_frontier"}
    [] prt = "Col" -> {"next_frontier"}
    [] prt = "_2D" -> {"next_frontier", "curr_frontier"}

\* The buffers of the units the broadcast pushes the frontier to: start_row and
\* start_2d push to nf_addr and to cf_addr, start_col to cf_addr only.
BroadcastTargets(prt) ==
  CASE prt = "Row" -> {"next_frontier", "curr_frontier"}
    [] prt = "Col" -> {"curr_frontier"}
    [] prt = "_2D" -> {"next_frontier", "curr_frontier"}

\* Word of the global frontier from which unit i's next_frontier is refreshed:
\* frontier in start_row, &frontier[i * len_nf % len_frontier] in start_2d.
NfSource(prt, h, i) == IF prt = "_2D" THEN NfOffset2D(h, i) ELSE 0

\* Whether the broadcast of a round reads a host word behind the frontier.
BroadcastOver(prt, h, n) ==
  \E i \in 0..(n - 1) :
    \/ OutOfBuffer(h.frontier_alloc, CfOffset(prt, h, i), h.size_cf)
    \/ /\ "next_frontier" \in BroadcastTargets(prt)
       /\ OutOfBuffer(h.frontier_alloc, NfSource(prt, h, i), h.size_nf)

\* Unit i after the broadcast: the level, then next_frontier (Row, 2D) and
\* curr_frontier are overwritten from the global frontier.
BroadcastUnit(prt, h, u, i, level, g) ==
  LET u1 == [u EXCEPT !.level = level]
      u2 == IF "next_frontier" \in BroadcastTargets(prt)
            THEN MramStore(u1, h.nf_addr, h.size_nf,
                           HostWords(h.frontier, h.frontier_alloc, NfSource(prt, h, i),
                                     h.size_nf, g))
            ELSE u1
  IN IF "curr_frontier" \in BroadcastTargets(prt)
     THEN MramStore(u2, h.cf_addr, h.size_cf,
                    HostWords(h.frontier, h.frontier_alloc, CfOffset(prt, h, i), h.size_cf, g))
     ELSE u2

\* The host locals after the broadcast: done = true, ++level, the memsets
\* (start_2d does not clear nf_tmp).
AfterBroadcast(prt, h, n, level) ==
  [h EXCEPT !.done = TRUE,
            !.level = level,
            !.pushed = BroadcastTargets(prt),
            !.frontier = ClearWords(@, h.frontier_alloc),
            !.nf_tmp = IF prt = "Row" THEN ClearWords(@, h.nf_tmp_alloc) ELSE @,
            !.oob = @ \/ BroadcastOver(prt, h, n)]

(***************************************************************************)
(* print_node_levels                                                       *)
(***************************************************************************)
\* The base without the wrap at total_nodes.
NodeBaseNoWrap(i, div, len_nl, total_nodes) == (i \div div) * len_nl

\* nreal - n for unit i: i / div * len_nl % total_nodes.
NodeBase(i, div, len_nl, total_nodes) == ((i \div div) * len_nl) % total_nodes

LevelAt(nl, x) == IF x \in DOMAIN nl THEN nl[x] ELSE 0

\* if (node_levels[nreal] == 0 || nl_tmp[n] < node_levels[nreal])
\*   node_levels[nreal] = nl_tmp[n];
MergedLevel(old, tmp) == IF old = 0 \/ tmp < old THEN tmp ELSE old

\* node_levels after the entries n < len_nl of nl_tmp are merged in at base.
MergeUnit(node_levels, nl_tmp, base, len_nl) ==
  LET touched == {base + x : x \in {y \in DOMAIN nl_tmp : y < len_nl}}
                   \cup {x \in DOMAIN node_levels : x >= base /\ x < base + len_nl}
      val(x) == IF x >= base /\ x < base + len_nl
                THEN MergedLevel(LevelAt(node_levels, x), LevelAt(nl_tmp, x - base))
                ELSE node_levels[x]
      all == (DOMAIN node_levels) \cup touched
  IN [x \in {y \in all : val(y) # 0} |-> val(x)]

\* DPU_FOREACH(set, dpu, i): fetch node_levels of unit i and merge it.
RECURSIVE MergeLoop(_, _, _, _, _)
MergeLoop(m, units, n, i, node_levels) ==
  IF i >= n THEN node_levels
  ELSE MergeLoop(m, units, n, i + 1,
                 MergeUnit(node_levels, units[i].node_levels,
                           NodeBase(i, m.div, m.len_nl, m.total_nodes), m.len_nl))

\* if (node != 0 && level == 0) continue;
SkipsLineZeroOnly(node, level) == level = 0

SkipsLine(node, level) == node # 0 /\ level = 0

\* for (node = 0; node < total_nodes; ++node) print "node\tlevel".
PrintLoop(node_levels, total_nodes) ==
  ForLoop(LAMBDA node, lines :
            IF SkipsLine(node, LevelAt(node_levels, node)) THEN lines
            ELSE Append(lines, <<node, LevelAt(node_levels, node)>>),
          0, total_nodes, <<>>)

(***************************************************************************)
(* Functions applied on their own.  The run of main() is idle meanwhile.   *)
(***************************************************************************)
mainvars == <<pc, cli, file, opt, fleet, coo, prts, dpu, host, out>>

IdleMain ==
  /\ pc = "idle" /\ cli = <<>> /\ file = <<>> /\ opt = <<>> /\ fleet = <<>>
  /\ coo = <<>> /\ prts = <<>> /\ dpu = <<>> /\ host = <<>> /\ out = <<>>

NoCall == [op |-> "none", arg |-> <<>>, res |-> <<>>, done |-> TRUE]

Call(op, arg) == [op |-> op, arg |-> arg, res |-> <<>>, done |-> FALSE]

Returns(op, res) ==
  /\ fn.op = op /\ ~fn.done
  /\ fn' = [fn EXCEPT !.res = res, !.done = TRUE]
  /\ UNCHANGED mainvars

Returned(op) == fn.op = op /\ fn.done

\* The unit counts parse_args lets through: positive multiples of 8.
UnitCounts == {8 * k : k \in 1..MaxDpuMult}

\* Number of occurrences of edge e in the arrays (rows, cols), indices in D.
EdgeCount(rows, cols, D, e) ==
  Cardinality({i \in D : rows[i] = e[1] /\ cols[i] = e[2]})

(***************************************************************************)
(* main(): the run of the program on a command line and an input file.     *)
(***************************************************************************)
\* The 5-node graph 0->1, 0->2, 1->3, 2->3, 3->4.
G5Edges == <<<<0, 1>>, <<0, 2>>, <<1, 3>>, <<2, 3>>, <<3, 4>>>>

GraphFile(num_nodes, edges) ==
  [exists |-> TRUE, header |-> TRUE, num_nodes |-> num_nodes,
   num_edges |-> Len(edges), lines |-> edges]

\* A graph of num_nodes nodes in which node v > 0 has an edge from node v - stride,
\* or from the root when there is no such node.
Backbone(num_nodes, stride) ==
  [k \in 1..(num_nodes - 1) |-> <<IF k <= stride THEN 0 ELSE k - stride, k>>]

GraphSizes == {40, 250}
Strides == {13, 60}

ExtraEdges(num_nodes) ==
  {<<>>, <<<<num_nodes - 1, 0>>>>, <<<<0, num_nodes - 1>>>>, <<<<1, 1>>, <<2, 1>>>>}

GraphFiles ==
  {GraphFile(5, G5Edges)}
    \cup {GraphFile(n, Backbone(n, s) \o x) :
            n \in GraphSizes, s \in Strides, x \in UNION {ExtraEdges(k) : k \in GraphSizes}}

MissingFile == [exists |-> FALSE, header |-> FALSE, num_nodes |-> 0, num_edges |-> 0, lines |-> <<>>]

BadFiles ==
  {MissingFile,
   [GraphFile(5, G5Edges) EXCEPT !.header = FALSE],
   [GraphFile(5, G5Edges) EXCEPT !.lines = [@ EXCEPT ![3] = <<>>]],
   [GraphFile(5, G5Edges) EXCEPT !.lines = [@ EXCEPT ![1] = <<0>>]],
   [GraphFile(5, G5Edges) EXCEPT !.num_edges = 6]}

\* Option values on the command line: the accepted ones and some that are not.
OptionValues ==
  [n |-> {ToString(v) : v \in UnitCounts \cup {0, 3}} \cup {"many"}, a |-> {"top", "bot", "edge", "dfs"},
   p |-> {"row", "col", "2d", "ring"}, o |-> {"levels.txt"}, x |-> {""}]

CliOptions ==
  UNION {{[flag |-> f, val |-> v] : v \in OptionValues[f]} : f \in DOMAIN OptionValues}

\* Command lines: at most MaxOpts options, no option given twice, and 0, 1 or 2
\* positional arguments.
CommandLines ==
  {[opts |-> os, numargs |-> k] :
     os \in {q \in SeqsUpTo(CliOptions, 0, MaxOpts) :
               \A i, j \in DOMAIN q : i # j => q[i].flag # q[j].flag},
     k \in 0..2}

\* -n N -a alg -p prt FILE
FullCli(n, a, p) ==
  [opts |-> <<[flag |-> "n", val |-> ToString(n)], [flag |-> "a", val |-> a], [flag |-> "p", val |-> p]>>,
   numargs |-> 1]

NoFleet ==
  [allocated |-> FALSE, units |-> 0, loaded |-> "none", freed |-> FALSE, failed |-> "none",
   running |-> {}]

NoOutput == [error |-> "none", header |-> FALSE, lines |-> <<>>]

Init ==
  /\ fn = NoCall
  /\ pc = "parse_args"
  /\ \/ cli \in CommandLines /\ file \in {GraphFile(5, G5Edges), MissingFile}
     \/ /\ cli \in {FullCli(n, a, p) : n \in UnitCounts, a \in {"top", "bot", "edge"},
                                       p \in {"row", "col", "2d"}}
        /\ file \in GraphFiles \cup BadFiles
  /\ opt = DefaultOpt
  /\ fleet = NoFleet
  /\ coo = <<>> /\ prts = <<>> /\ dpu = <<>> /\ host = <<>>
  /\ out = NoOutput

\* parse_args(argc, argv, ...): an error is printed and the process exits.
ParseArgs ==
  /\ pc = "parse_args"
  /\ opt' = parse_args(cli)
  /\ cli' = <<>>
  /\ IF opt'.error # "none"
     THEN pc' = "exit" /\ out' = [out EXCEPT !.error = opt'.error]
     ELSE pc' = "dpu_alloc" /\ out' = out
  /\ UNCHANGED <<file, fleet, coo, prts, dpu, host, fn>>

\* The steps of main() that operate the fleet, every operation of which is
\* wrapped in DPU_ASSERT: allocation, program load and symbol lookup, the copies
\* of the population, the launch, the transfers of a round, the fetch of the
\* results, the release.
FleetSteps ==
  {"dpu_alloc", "dpu_load", "populate", "launch", "collect", "fetch", "broadcast",
   "print_node_levels", "dpu_free"}

\* A failure that is reported but does not stop the run.
DpuAssertIgnored(step) == step

\* DPU_ASSERT on a status other than DPU_OK: the error is reported and the
\* process exits, whatever the step.
DpuAssertExit(step) == "abort"

\* A fleet operation of the current step fails: DPU_ASSERT ends the process,
\* and with it the host's data.  What the file holds stays.
FleetFailure ==
  /\ pc \in FleetSteps
  /\ fleet' = [fleet EXCEPT !.failed = pc]
  /\ pc' = DpuAssertExit(pc)
  /\ IF pc' = "abort"
     THEN coo' = <<>> /\ prts' = <<>> /\ dpu' = <<>> /\ host' = <<>>
     ELSE UNCHANGED <<coo, prts, dpu, host>>
  /\ UNCHANGED <<cli, file, opt, out, fn>>

\* DPU_ASSERT(dpu_alloc(num_dpu, NULL, &set)) when the allocation succeeds.
DpuAlloc ==
  /\ pc = "dpu_alloc"
  /\ fleet' = [fleet EXCEPT !.allocated = TRUE, !.units = opt.num_dpu]
  /\ pc' = "dpu_load"
  /\ UNCHANGED <<cli, file, opt, coo, prts, dpu, host, out, fn>>

\* DPU_ASSERT(dpu_load(set, bin_path, &program)); cache_symbols(program).
\* Without -a, bin_path is read uninitialised: the load fails (FleetFailure) or
\* the read traps.
DpuLoad ==
  /\ pc = "dpu_load"
  /\ IF opt.bin_path = "uninitialised"
     THEN /\ pc' = "crash"
          /\ fleet' = fleet
     ELSE /\ pc' = "load_coo"
          /\ fleet' = [fleet EXCEPT !.loaded = opt.bin_path]
  /\ UNCHANGED <<cli, file, opt, coo, prts, dpu, host, out, fn>>

\* load_coo(file, num_dpu): exits on a missing or malformed file; num_nodes % n
\* traps when n is 0.
LoadCoo ==
  /\ pc = "load_coo"
  /\ file' = <<>>
  /\ IF LoadError(file) \in {"missing file", "bad header"}
     THEN pc' = "exit" /\ out' = [out EXCEPT !.error = LoadError(file)] /\ coo' = coo
     ELSE IF opt.num_dpu = 0
     THEN pc' = "crash" /\ out' = out /\ coo' = coo
     ELSE IF LoadError(file) # "none"
     THEN pc' = "exit" /\ out' = [out EXCEPT !.error = LoadError(file)] /\ coo' = coo
     ELSE pc' = "partition_coo" /\ out' = out /\ coo' = load_coo(file, opt.num_dpu)
  /\ UNCHANGED <<cli, opt, fleet, prts, dpu, host, fn>>

\* partition_coo(coo, num_dpu, prt); free_coo(coo).  coo stays as the record of
\* what was loaded.
PartitionCoo ==
  /\ pc = "partition_coo"
  /\ prts' = partition_coo(coo, opt.num_dpu, opt.prt)
  /\ pc' = "populate"
  /\ UNCHANGED <<cli, file, opt, fleet, coo, dpu, host, out, fn>>

\* bfs_top_down / bfs_bottom_up / bfs_edge up to the call of start_*: the
\* population of every unit, free_coo_partitions.
Populate ==
  /\ pc = "populate"
  /\ LET m == BfsMeta(opt.alg, opt.prt, prts, opt.num_dpu)
     IN /\ dpu' = [i \in 0..(opt.num_dpu - 1) |-> PopulateUnit(opt.alg, m, prts[i], i)]
        /\ host' = StartLocals(opt.prt, m, opt.num_dpu, dpu')
  /\ prts' = <<>>
  /\ pc' = "launch"
  /\ UNCHANGED <<cli, file, opt, fleet, coo, out, fn>>

\* dpu_launch(set, DPU_SYNCHRONOUS): every unit runs its kernel to completion.
Launch ==
  /\ pc = "launch"
  /\ dpu' = [i \in DOMAIN dpu |-> Kernel(opt.alg, dpu[i])]
  /\ host' = [host EXCEPT !.launches = @ + 1]
  /\ pc' = "collect"
  /\ UNCHANGED <<cli, file, opt, fleet, coo, prts, out, fn>>

\* The transfer of nf_updated from every unit.
CollectFlags ==
  /\ pc = "collect"
  /\ host' = [host EXCEPT !.nf_updated = [i \in DOMAIN dpu |-> dpu[i].nf_updated],
                          !.dirty = Append(@, Cardinality({i \in DOMAIN dpu : dpu[i].nf_updated = 1}))]
  /\ pc' = IF opt.prt = "_2D" THEN "test" ELSE "fetch"
  /\ UNCHANGED <<cli, file, opt, fleet, coo, prts, dpu, out, fn>>

\* The transfer of next_frontier from the units whose flag is set.
Fetch ==
  /\ pc = "fetch"
  /\ host' = FetchNf(opt.prt, host, dpu, opt.num_dpu)
  /\ pc' = CASE opt.prt = "Row" -> "reduce"
             [] opt.prt = "Col" -> "test"
             [] opt.prt = "_2D" -> "reduce"
  /\ UNCHANGED <<cli, file, opt, fleet, coo, prts, dpu, out, fn>>

\* The union of the fetched next_frontiers into the global frontier.
Reduce ==
  /\ pc = "reduce"
  /\ host' = ReduceNf(opt.prt, host, opt.num_dpu)
  /\ pc' = IF opt.prt = "Row" THEN "test" ELSE "broadcast"
  /\ UNCHANGED <<cli, file, opt, fleet, coo, prts, dpu, out, fn>>

\* The break of the while (true) loop.
TestDone ==
  /\ pc = "test"
  /\ pc' = IF Converged(opt.prt, host, opt.num_dpu) THEN "print_node_levels"
           ELSE IF opt.prt = "_2D" THEN "fetch" ELSE "broadcast"
  /\ UNCHANGED <<cli, file, opt, fleet, coo, prts, dpu, host, out, fn>>

\* done = true; ++level; the level and the frontier slices go to every unit;
\* the host buffers are cleared.  A slice that leaves the frontier reads what
\* lies behind it.
Broadcast ==
  /\ pc = "broadcast"
  /\ \E g \in GarbageWords :
       /\ g = {} \/ BroadcastOver(opt.prt, host, opt.num_dpu)
       /\ dpu' = [i \in DOMAIN dpu |->
                    BroadcastUnit(opt.prt, host, dpu[i], i, NextLevel(host.level), g)]
  /\ host' = AfterBroadcast(opt.prt, host, opt.num_dpu, NextLevel(host.level))
  /\ pc' = "launch"
  /\ UNCHANGED <<cli, file, opt, fleet, coo, prts, out, fn>>

\* print_node_levels: the header line, then node_levels of every unit is
\* fetched and merged.
FetchLevels ==
  /\ pc = "print_node_levels"
  /\ out' = [out EXCEPT !.header = TRUE]
  /\ host' = [host EXCEPT !.node_levels = MergeLoop(host.m, dpu, opt.num_dpu, 0, <<>>)]
  /\ pc' = "print_lines"
  /\ UNCHANGED <<cli, file, opt, fleet, coo, prts, dpu, fn>>

\* print_node_levels: the loop that prints the lines.
PrintLines ==
  /\ pc = "print_lines"
  /\ out' = [out EXCEPT !.lines = PrintLoop(host.node_levels, host.m.total_nodes)]
  /\ pc' = "dpu_free"
  /\ UNCHANGED <<cli, file, opt, fleet, coo, prts, dpu, host, fn>>

\* fclose(out); DPU_ASSERT(dpu_free(set)); return 0.
DpuFree ==
  /\ pc = "dpu_free"
  /\ fleet' = [fleet EXCEPT !.freed = TRUE]
  /\ pc' = "done"
  /\ UNCHANGED <<cli, file, opt, coo, prts, dpu, host, out, fn>>

Next ==
  \/ ParseArgs \/ DpuAlloc \/ DpuLoad \/ LoadCoo \/ PartitionCoo \/ Populate
  \/ Launch \/ CollectFlags \/ Fetch \/ Reduce \/ TestDone \/ Broadcast
  \/ FetchLevels \/ PrintLines \/ DpuFree \/ FleetFailure

Spec == Init /\ [][Next]_vars

(***************************************************************************)
(* Reference: the BFS levels of the loaded graph, by definition.           *)
(***************************************************************************)
RefEdges(c) == {<<c.row_idxs[i], c.col_idxs[i]>> : i \in 0..(c.num_edges - 1)}

RECURSIVE RefBfs(_, _, _, _)
RefBfs(E, frontier, levels, d) ==
  LET nxt == {e[2] : e \in {x \in E : x[1] \in frontier}} \ DOMAIN levels
  IN IF nxt = {} THEN levels
     ELSE RefBfs(E, nxt, levels @@ [v \in nxt |-> d + 1], d + 1)

RefLevels(c) == RefBfs(RefEdges(c), {0}, (0 :> 0), 0)

\* Every node of the file is reachable from node 0.
RootConnected(c) == DOMAIN RefLevels(c) = 0..(c.old - 1)

Eccentricity(c) ==
  LET l == RefLevels(c) IN CHOOSE d \in Range(l) : \A x \in DOMAIN l : l[x] <= d

IsG5(c) ==
  /\ c.old = 5 /\ c.num_edges = 5
  /\ [i \in 0..4 |-> <<c.row_idxs[i], c.col_idxs[i]>>] = ArrayOf(G5Edges)

\* C1: for the 5-node graph 0->1, 0->2, 1->3, 2->3, 3->4, every algorithm and
\* topology with 8 and with 16 units prints exactly the levels 0:0, 1:1, 2:1,
\* 3:2, 4:3 and no line for any other node.
G5LevelsPrinted ==
  (pc = "done" /\ IsG5(coo) /\ opt.num_dpu \in {8, 16}) =>
    /\ out.header
    /\ out.lines = <<<<0, 0>>, <<1, 1>>, <<2, 1>>, <<3, 2>>, <<4, 3>>>>

G5LevelsWitness ==
  /\ pc = "done" /\ IsG5(coo) /\ opt.num_dpu = 16 /\ opt.alg = "Edge" /\ opt.prt = "_2D"
  /\ out.lines = <<<<0, 0>>, <<1, 1>>, <<2, 1>>, <<3, 2>>, <<4, 3>>>>

\* C2: on a graph whose nodes are all reachable from node 0, with D the
\* eccentricity of node 0, the round loop of each topology ends after exactly
\* D + 1 launches: some unit reports its flag set in each of the rounds 1..D
\* and none does in round D + 1.
ConvergesInEccentricityPlusOne ==
  (pc = "print_node_levels" /\ RootConnected(coo)) =>
    LET D == Eccentricity(coo)
    IN /\ host.launches = D + 1
       /\ Len(host.dirty) = D + 1
       /\ \A k \in 1..D : host.dirty[k] > 0
       /\ host.dirty[D + 1] = 0

ConvergesWitness ==
  /\ pc = "print_node_levels" /\ RootConnected(coo) /\ coo.old = 250
  /\ opt.prt = "Col" /\ Eccentricity(coo) = 20 /\ host.launches = 21 /\ host.oob

\* C10: every configuration error (a bad option value, a unit count that is
\* not a positive multiple of 8, a missing or malformed input file) ends the run
\* before any fleet allocation and any program load.
ConfigErrorsBeforeFleet ==
  /\ (pc = "exit" /\ out.error # "none") => (~fleet.allocated /\ fleet.loaded = "none")
  /\ fleet.allocated => (opt.num_dpu > 0 /\ opt.num_dpu % 8 = 0)

(***************************************************************************)
(* print_node_levels applied to what the units report.                     *)
(***************************************************************************)
\* The units that report, and the local entries they report on.
ReportingUnits == {0, 1}
ReportedEntries == {0, 1}

InitLevels ==
  IdleMain /\ \E n \in UnitCounts, alg \in Algorithms, prt \in Partitions :
    LET total == PadNodes(1, n)
        m == BfsMeta(alg, prt, partition_coo(MkCOO(total, total, <<>>), n, prt), n)
    IN \E rep \in [ReportingUnits \X ReportedEntries -> 0..MaxLevel] :
         fn = Call("print_node_levels",
                   [m |-> m, n |-> n,
                    units |-> [i \in 0..(n - 1) |->
                                 [node_levels |->
                                    [x \in {y \in ReportedEntries :
                                              i \in ReportingUnits /\ rep[<<i, y>>] # 0}
                                       |-> rep[<<i, x>>]]]]])

CallPrintNodeLevels ==
  LET node_levels == MergeLoop(fn.arg.m, fn.arg.units, fn.arg.n, 0, <<>>)
  IN Returns("print_node_levels",
             [node_levels |-> node_levels,
              lines |-> PrintLoop(node_levels, fn.arg.m.total_nodes)])

SpecLevels == InitLevels /\ [][CallPrintNodeLevels]_vars

\* The levels the units report for global node x.
Reported(a, x) ==
  {LevelAt(a.units[i].node_levels, k) :
     <<i, k>> \in {q \in (0..(a.n - 1)) \X ReportedEntries :
                     q[2] + NodeBase(q[1], a.m.div, a.m.len_nl, a.m.total_nodes) = x}}

\* C5: the level kept for a node is the minimum of the non-zero levels the
\* units report for it, 0 only when every unit reports 0, whatever the order
\* of the units.
MergeKeepsMinNonZero ==
  Returned("print_node_levels") =>
    \A x \in ReportedEntries :
      LET nz == Reported(fn.arg, x) \ {0}
      IN LevelAt(fn.res.node_levels, x) =
           IF nz = {} THEN 0 ELSE CHOOSE l \in nz : \A k \in nz : l <= k

\* The ascending sequence of the elements of a set of naturals.
RECURSIVE Ascending(_)
Ascending(S) ==
  IF S = {} THEN <<>>
  ELSE LET x == CHOOSE y \in S : \A z \in S : y <= z
       IN <<x>> \o Ascending(S \ {x})

\* C9: after the header, one line per node that is node 0 or has a non-zero
\* merged level, in ascending order of node id; node 0 has a line even with
\* level 0, and no other node has a line while its level is 0.
PrintsNodeZeroAndNonZero ==
  Returned("print_node_levels") =>
    LET nl == fn.res.node_levels
        ids == {0} \cup DOMAIN nl
    IN /\ fn.res.lines = [k \in 1..Cardinality(ids) |->
                            <<Ascending(ids)[k], LevelAt(nl, Ascending(ids)[k])>>]
       /\ \A k \in DOMAIN fn.res.lines :
            fn.res.lines[k][1] = 0 \/ fn.res.lines[k][2] # 0

PrintsWitness ==
  /\ Returned("print_node_levels")
  /\ LevelAt(fn.res.node_levels, 0) = 0
  /\ fn.res.lines = <<<<0, 0>>, <<1, 2>>>>

(***************************************************************************)
(* nearest_factors applied to every n of 1..MaxFactorN.                    *)
(***************************************************************************)
InitFactors == IdleMain /\ \E n \in 1..MaxFactorN : fn = Call("nearest_factors", n)

CallNearestFactors == Returns("nearest_factors", nearest_factors(fn.arg))

SpecFactors == InitFactors /\ [][CallNearestFactors]_vars

\* C8: nearest_factors(N) returns (R, C) with R * C = N and R <= C, R being the
\* largest divisor of N not above the integer square root of N; 8, 16 and 32 give
\* (2,4), (4,4) and (4,8).
FactorsNearest ==
  Returned("nearest_factors") =>
    LET n == fn.arg
        R == fn.res.first
        C == fn.res.second
    IN /\ R * C = n
       /\ R <= C
       /\ R \in 1..n /\ n % R = 0 /\ R * R <= n
       /\ \A d \in 1..n : (n % d = 0 /\ d * d <= n) => d <= R
       /\ (n = 8 => <<R, C>> = <<2, 4>>)
       /\ (n = 16 => <<R, C>> = <<4, 4>>)
       /\ (n = 32 => <<R, C>> = <<4, 8>>)

FactorsNearestWitness ==
  Returned("nearest_factors") /\ fn.arg = 32 /\ fn.res = [first |-> 4, second |-> 8]

(***************************************************************************)
(* The padding of load_coo applied to node counts and unit counts.         *)
(***************************************************************************)
InitPad ==
  IdleMain /\ \E k \in 1..MaxPadUnits, num_nodes \in 0..MaxPadNodes :
                fn = Call("load_coo_padding", [num_nodes |-> num_nodes, n |-> 8 * k])

CallPadNodes == Returns("load_coo_padding", PadNodes(fn.arg.num_nodes, fn.arg.n))

SpecPad == InitPad /\ [][CallPadNodes]_vars

\* C4 as stated: the padded node count is divisible by N and by 32, is not smaller
\* than the input node count, and is the smallest such value.
PaddingIsLeastCommonMultiple ==
  Returned("load_coo_padding") =>
    LET n == fn.arg.n
        num_nodes == fn.arg.num_nodes
    IN /\ fn.res % n = 0 /\ fn.res % 32 = 0 /\ fn.res >= num_nodes
       /\ \A m \in num_nodes..(fn.res - 1) : ~(m % n = 0 /\ m % 32 = 0)

\* C4 as amended: the padded node count is the smallest multiple of 32 * N that is
\* not smaller than the input node count, so that it is divisible by N and by 32
\* and every partition's share of it is a multiple of 32.
PaddingIsLeastChunkMultiple ==
  Returned("load_coo_padding") =>
    LET n == fn.arg.n
        num_nodes == fn.arg.num_nodes
    IN /\ fn.res % n = 0 /\ fn.res % 32 = 0 /\ fn.res >= num_nodes
       /\ (fn.res \div n) % 32 = 0
       /\ \A m \in num_nodes..(fn.res - 1) : m % (32 * n) # 0

PaddingWitness ==
  Returned("load_coo_padding") /\ fn.arg = [num_nodes |-> 5, n |-> 8] /\ fn.res = 256

(***************************************************************************)
(* partition_coo applied to padded graphs with edges around the partition  *)
(* boundaries.                                                             *)
(***************************************************************************)
\* Node ids next to the boundaries of the row, column and grid partitions.
BoundaryNodes(total, n) ==
  LET f == nearest_factors(n)
  IN {0, (total \div n) - 1, total \div f.second, (total \div f.first) - 1, total - 1}

InitPart ==
  IdleMain /\ \E n \in UnitCounts, prt \in Partitions :
    LET total == PadNodes(1, n)
        B == BoundaryNodes(total, n)
    IN \E edges \in SeqsUpTo(B \X B, 0, MaxPartEdges) :
         fn = Call("partition_coo", [coo |-> MkCOO(total, total, edges), n |-> n, prt |-> prt])

CallPartitionCoo ==
  Returns("partition_coo", partition_coo(fn.arg.coo, fn.arg.n, fn.arg.prt))

SpecPart == InitPart /\ [][CallPartitionCoo]_vars

\* C3: partition_coo places each input edge in exactly one of the N partitions (the
\* per-partition edge counts sum to num_edges, each partition's arrays are filled
\* exactly to the size counted in the first pass) and adding each partition's
\* row/column offset back to its rebased edges gives the original edge multiset.
PartitionComplete ==
  Returned("partition_coo") =>
    LET c == fn.arg.coo
        n == fn.arg.n
        prt == fn.arg.prt
        f == nearest_factors(n)
        R == IF prt = "Row" THEN n ELSE IF prt = "Col" THEN 1 ELSE f.first
        C == IF prt = "Row" THEN 1 ELSE IF prt = "Col" THEN n ELSE f.second
        roff(p) == IF prt = "Col" THEN 0 ELSE (p \div C) * (c.num_rows \div R)
        coff(p) == IF prt = "Row" THEN 0 ELSE (p % C) * (c.num_cols \div C)
        P == fn.res
        back(p) == [rows |-> [i \in DOMAIN P[p].row_idxs |-> P[p].row_idxs[i] + roff(p)],
                    cols |-> [i \in DOMAIN P[p].col_idxs |-> P[p].col_idxs[i] + coff(p)]]
        E == {<<c.row_idxs[i], c.col_idxs[i]>> : i \in DOMAIN c.row_idxs}
    IN /\ DOMAIN P = 0..(n - 1)
       /\ SumOver(0..(n - 1), [p \in 0..(n - 1) |-> P[p].num_edges]) = c.num_edges
       /\ \A p \in 0..(n - 1) :
            /\ P[p].num_edges = P[p].alloc
            /\ DOMAIN P[p].row_idxs = 0..(P[p].num_edges - 1)
            /\ DOMAIN P[p].col_idxs = 0..(P[p].num_edges - 1)
            /\ \A i \in DOMAIN P[p].row_idxs :
                 /\ P[p].row_idxs[i] \in 0..(P[p].num_rows - 1)
                 /\ P[p].col_idxs[i] \in 0..(P[p].num_cols - 1)
       /\ \A e \in E :
            EdgeCount(c.row_idxs, c.col_idxs, DOMAIN c.row_idxs, e)
              = SumOver(0..(n - 1),
                        [p \in 0..(n - 1) |->
                           EdgeCount(back(p).rows, back(p).cols, DOMAIN back(p).rows, e)])

PartitionWitness ==
  /\ Returned("partition_coo") /\ fn.arg.prt = "_2D" /\ fn.arg.n = 8
  /\ fn.arg.coo.num_edges = 2
  /\ fn.arg.coo.row_idxs[0] = 255 /\ fn.arg.coo.col_idxs[0] = 64
  /\ fn.arg.coo.row_idxs[1] = 255 /\ fn.arg.coo.col_idxs[1] = 64
  /\ fn.res[5].num_edges = 2
  /\ fn.res[5].row_idxs[1] = 127 /\ fn.res[5].col_idxs[1] = 0

(***************************************************************************)
(* coo_to_csr and coo_to_csc applied to small matrices.                    *)
(***************************************************************************)
InitCsr ==
  IdleMain /\ \E num_rows \in 1..MaxDim, num_cols \in 1..MaxDim :
    \E edges \in SeqsUpTo((0..(num_rows - 1)) \X (0..(num_cols - 1)), 0, MaxCsrEdges) :
      \E op \in {"coo_to_csr", "coo_to_csc"} :
        fn = Call(op, MkCOO(num_rows, num_cols, edges))

CallCooToCsr == Returns("coo_to_csr", coo_to_csr(fn.arg))

CallCooToCsc == Returns("coo_to_csc", coo_to_csc(fn.arg))

NextCsr == CallCooToCsr \/ CallCooToCsc

SpecCsr == InitCsr /\ [][NextCsr]_vars

\* C6: the pairs (r, col_idxs[k]) for row_ptrs[r] <= k < row_ptrs[r+1] of
\* coo_to_csr(E), after its row-pointer restore step, are exactly the multiset of
\* E's edges (rows without edges and duplicate edges included).
CsrRoundTrip ==
  Returned("coo_to_csr") =>
    LET c == fn.arg
        csr == fn.res
    IN /\ DOMAIN csr.row_ptrs = 0..c.num_rows
       /\ DOMAIN csr.col_idxs = 0..(c.num_edges - 1)
       /\ csr.row_ptrs[0] = 0 /\ csr.row_ptrs[c.num_rows] = c.num_edges
       /\ \A r \in 0..(c.num_rows - 1) : csr.row_ptrs[r] <= csr.row_ptrs[r + 1]
       /\ \A r \in 0..(c.num_rows - 1), col \in 0..(c.num_cols - 1) :
            Cardinality({k \in csr.row_ptrs[r]..(csr.row_ptrs[r + 1] - 1) :
                           csr.col_idxs[k] = col})
              = EdgeCount(c.row_idxs, c.col_idxs, DOMAIN c.row_idxs, <<r, col>>)

CsrWitness ==
  /\ Returned("coo_to_csr") /\ fn.arg.num_rows = 3 /\ fn.arg.num_edges = 2
  /\ fn.arg.row_idxs[0] = 2 /\ fn.arg.row_idxs[1] = 2
  /\ fn.arg.col_idxs[0] = 1 /\ fn.arg.col_idxs[1] = 1
  /\ fn.res.row_ptrs = (0 :> 0) @@ (1 :> 0) @@ (2 :> 0) @@ (3 :> 2)

\* C7: coo_to_csc(E) has num_cols + 1 column pointers, for every column c the
\* entries row_idxs[col_ptrs[c] .. col_ptrs[c+1]) are exactly the multiset of the
\* rows r with (r, c) in E, and its num_rows and num_cols are those of E.
CscIsDual ==
  Returned("coo_to_csc") =>
    LET c == fn.arg
        csc == fn.res
    IN /\ csc.num_rows = c.num_rows /\ csc.num_cols = c.num_cols
       /\ csc.num_edges = c.num_edges
       /\ DOMAIN csc.col_ptrs = 0..c.num_cols
       /\ DOMAIN csc.row_idxs = 0..(c.num_edges - 1)
       /\ csc.col_ptrs[0] = 0 /\ csc.col_ptrs[c.num_cols] = c.num_edges
       /\ \A col \in 0..(c.num_cols - 1), r \in 0..(c.num_rows - 1) :
            Cardinality({k \in csc.col_ptrs[col]..(csc.col_ptrs[col + 1] - 1) :
                           csc.row_idxs[k] = r})
              = EdgeCount(c.row_idxs, c.col_idxs, DOMAIN c.row_idxs, <<r, col>>)

CscWitness ==
  /\ Returned("coo_to_csc") /\ fn.arg.num_rows = 1 /\ fn.arg.num_cols = 3
  /\ fn.arg.num_edges = 2
  /\ fn.arg.col_idxs[0] = 2 /\ fn.arg.col_idxs[1] = 0
  /\ fn.res.col_ptrs = (0 :> 0) @@ (1 :> 1) @@ (2 :> 1) @@ (3 :> 2)
  /\ fn.res.num_cols = 3


(***************************************************************************)
(* parse_args applied to command lines, options repeated or not.           *)
(***************************************************************************)
\* Command lines of at most MaxOpts options in any order, an option possibly
\* given more than once.
ArgLines ==
  {[opts |-> os, numargs |-> k] : os \in SeqsUpTo(CliOptions, 0, MaxOpts), k \in 0..2}

InitArgs == IdleMain /\ \E c \in ArgLines : fn = Call("parse_args", c)

CallParseArgs == Returns("parse_args", parse_args(fn.arg))

SpecArgs == InitArgs /\ [][CallParseArgs]_vars

\* The values of the options with flag f on a command line, in order.
ValuesOf(c, f) ==
  LET Pick(o) == o.flag = f
      os == SelectSeq(c.opts, Pick)
  IN [k \in DOMAIN os |-> os[k].val]

Last(s) == s[Len(s)]

\* C11: when parse_args returns without an error, every unit count asked for
\* with -n was a positive multiple of 8, and the unit count used afterwards is a
\* positive multiple of 8.
UnitCountPositiveMultipleOf8 ==
  (Returned("parse_args") /\ fn.res.error = "none") =>
     /\ fn.res.num_dpu > 0 /\ fn.res.num_dpu % 8 = 0
     /\ \A v \in Range(ValuesOf(fn.arg, "n")) : atoi(v) > 0 /\ atoi(v) % 8 = 0

\* The kernel binary of an algorithm and its default topology.
BinPathOf(a) ==
  CASE a = "top" -> "bin/top-down-dma" [] a = "bot" -> "bin/bottom-up-dma"
    [] a = "edge" -> "bin/edge-dma"

DefaultPrtOf(a) == CASE a = "top" -> "Row" [] a = "bot" -> "Col" [] a = "edge" -> "_2D"

PrtOf(p) == CASE p = "row" -> "Row" [] p = "col" -> "Col" [] p = "2d" -> "_2D"

\* The algorithm a command line selects: the last -a, top-down without any.
SelectedAlg(c) ==
  IF ValuesOf(c, "a") = <<>> THEN "top" ELSE Last(ValuesOf(c, "a"))

\* C12: when parse_args returns without an error, for every sequence of -a and
\* -p options the binary path is defined and is the one of the selected
\* algorithm (top-down without -a), and the topology is the one -p gave, else
\* the default of the selected algorithm.
BinPathAndTopologyDefined ==
  (Returned("parse_args") /\ fn.res.error = "none") =>
     /\ fn.res.bin_path = BinPathOf(SelectedAlg(fn.arg))
     /\ fn.res.prt = IF ValuesOf(fn.arg, "p") = <<>>
                      THEN DefaultPrtOf(SelectedAlg(fn.arg))
                      ELSE PrtOf(Last(ValuesOf(fn.arg, "p")))

\* The topology half of C12 alone, which parse_args does guarantee.
TopologyDefined ==
  (Returned("parse_args") /\ fn.res.error = "none") =>
     fn.res.prt = IF ValuesOf(fn.arg, "p") = <<>>
                  THEN DefaultPrtOf(SelectedAlg(fn.arg))
                  ELSE PrtOf(Last(ValuesOf(fn.arg, "p")))

(***************************************************************************)
(* The run of main() when an operation of the fleet fails.                 *)
(***************************************************************************)
\* C13: a fleet operation that fails during the allocation, the load, the
\* population, a round or the fetch of the results ends the run at that
\* operation: the run is aborted, no node-level line is written, and after a
\* failure in the population or in a round the loop is never left as converged
\* (the header of the result is never written).
FleetFailureAborts ==
  fleet.failed \notin {"none", "dpu_free"} =>
     /\ pc = "abort"
     /\ out.lines = <<>>
     /\ fleet.failed # "print_node_levels" => ~out.header
     /\ ~fleet.freed

\* A broadcast of some round has failed, and the run is over without a line.
FleetFailureWitness ==
  /\ fleet.failed = "broadcast" /\ pc = "abort"
  /\ fleet.allocated /\ fleet.loaded = "bin/bottom-up-dma"
  /\ out.lines = <<>> /\ ~out.header

(***************************************************************************)
(* load_coo applied to small files of 0-based and of 1-based indices.      *)
(***************************************************************************)
MaxFileNodes == 3
MaxFileEdges == 2

\* The files of num_nodes nodes whose indices are all base-based, base 0 or 1,
\* with 1..MaxFileEdges edge lines.
BasedFiles(num_nodes, base) ==
  {GraphFile(num_nodes, es) :
     es \in SeqsUpTo((base..(base + num_nodes - 1)) \X (base..(base + num_nodes - 1)),
                     1, MaxFileEdges)}

InitLoad ==
  /\ IdleMain
  /\ \E num_nodes \in 1..MaxFileNodes, base \in {0, 1}, n \in UnitCounts :
       \E f \in BasedFiles(num_nodes, base) :
          fn = Call("load_coo", [file |-> f, n |-> n, base |-> base])

CallLoadCoo ==
  /\ LoadError(fn.arg.file) = "none"
  /\ Returns("load_coo", load_coo(fn.arg.file, fn.arg.n))

SpecLoad == InitLoad /\ [][CallLoadCoo]_vars

\* C14: after load_coo of a file whose lines parse and whose indices are all
\* 0-based or all 1-based, every stored row and column index is the 0-based
\* index of the node and is below the padded node count num_rows = num_cols.
IndicesNormalised ==
  Returned("load_coo") =>
     LET c == fn.res
         f == fn.arg.file
     IN /\ c.num_rows = c.num_cols
        /\ \A i \in 0..(c.num_edges - 1) :
             /\ c.row_idxs[i] = f.lines[i + 1][1] - fn.arg.base
             /\ c.col_idxs[i] = f.lines[i + 1][2] - fn.arg.base
             /\ c.row_idxs[i] >= 0 /\ c.row_idxs[i] < c.num_rows
             /\ c.col_idxs[i] >= 0 /\ c.col_idxs[i] < c.num_cols

(***************************************************************************)
(* The rounds of start_row, start_col, start_2d with the units of a launch *)
(* finishing one by one.                                                   *)
(***************************************************************************)
LaunchModeAsync == "DPU_ASYNCHRONOUS"

\* The policy dpu_launch is called with.
LaunchMode == "DPU_SYNCHRONOUS"

\* dpu_launch(set, ...): every unit of the set is booted.
LaunchStart ==
  /\ pc = "launch"
  /\ fleet' = [fleet EXCEPT !.running = DOMAIN dpu]
  /\ host' = [host EXCEPT !.launches = @ + 1]
  /\ pc' = "running"
  /\ UNCHANGED <<cli, file, opt, coo, prts, dpu, out, fn>>

\* A unit runs its kernel, on its own memory, to the end.
UnitRuns ==
  /\ pc = "running"
  /\ \E i \in fleet.running :
       /\ dpu' = [dpu EXCEPT ![i] = Kernel(opt.alg, dpu[i])]
       /\ fleet' = [fleet EXCEPT !.running = @ \ {i}]
  /\ UNCHANGED <<pc, cli, file, opt, coo, prts, host, out, fn>>

\* dpu_launch returns: with DPU_SYNCHRONOUS when every unit has finished, with
\* DPU_ASYNCHRONOUS at once.
LaunchReturns ==
  /\ pc = "running"
  /\ LaunchMode = "DPU_SYNCHRONOUS" => fleet.running = {}
  /\ pc' = "collect"
  /\ UNCHANGED <<cli, file, opt, fleet, coo, prts, dpu, host, out, fn>>

InitSync ==
  /\ fn = NoCall
  /\ pc = "parse_args"
  /\ cli \in {FullCli(8, a, p) : a \in {"top", "bot", "edge"}, p \in {"row", "col", "2d"}}
  /\ file = GraphFile(5, G5Edges)
  /\ opt = DefaultOpt
  /\ fleet = NoFleet
  /\ coo = <<>> /\ prts = <<>> /\ dpu = <<>> /\ host = <<>>
  /\ out = NoOutput

NextSync ==
  \/ ParseArgs \/ DpuAlloc \/ DpuLoad \/ LoadCoo \/ PartitionCoo \/ Populate
  \/ LaunchStart \/ UnitRuns \/ LaunchReturns
  \/ CollectFlags \/ Fetch \/ Reduce \/ TestDone \/ Broadcast
  \/ FetchLevels \/ PrintLines \/ DpuFree \/ FleetFailure

SpecSync == InitSync /\ [][NextSync]_vars

\* The place of a step in its round: launch, collect, the fetch and reduce that
\* form the global frontier, broadcast; the convergence test is made after the
\* collect in 2D and after the reduce in Row and Col.
StepRank(step, prt) ==
  CASE step = "launch" -> 0
    [] step = "running" -> 1
    [] step = "collect" -> 2
    [] step = "test" -> IF prt = "_2D" THEN 3 ELSE 6
    [] step = "fetch" -> 4
    [] step = "reduce" -> 5
    [] step = "broadcast" -> 7

RoundSteps == {"launch", "running", "collect", "test", "fetch", "reduce", "broadcast"}

\* No unit is running when the host is at a step other than the launch.
NoUnitRunningOutsideLaunch == pc # "running" => fleet.running = {}

\* At a launch after the first, every unit holds the level of the last broadcast.
BroadcastReachedAllUnits ==
  (pc = "launch" /\ host.launches > 0) =>
     /\ host.level = host.launches
     /\ \A i \in DOMAIN dpu : dpu[i].level = host.level

\* A step of a round is followed by a later step of the same round, the
\* broadcast by the next launch, the test possibly by the end of the loop.
StepsInOrder ==
  (pc \in RoundSteps /\ pc' # pc) =>
     \/ pc' \in RoundSteps /\ StepRank(pc', opt.prt) > StepRank(pc, opt.prt)
     \/ pc = "broadcast" /\ pc' = "launch"
     \/ pc = "test" /\ pc' = "print_node_levels"
     \/ pc \in FleetSteps /\ pc' = "abort"

\* C15: in every round of every topology the host steps follow one another in
\* the order launch, collect, reduce, broadcast; the host transfers nothing
\* from or to a unit while a unit is still running the kernel of the round;
\* and a launch after the first happens only once the broadcast of the round
\* before has reached every unit.
RoundsAreBulkSynchronous ==
  /\ [](NoUnitRunningOutsideLaunch /\ BroadcastReachedAllUnits)
  /\ [][StepsInOrder]_vars

\* The host collects the flags of the third round of a 2D run after every unit
\* has finished, two broadcasts having been made.
BulkSynchronousWitness ==
  /\ pc = "collect" /\ opt.prt = "_2D" /\ host.launches = 3 /\ host.level = 2
  /\ fleet.running = {}
  /\ \E i \in DOMAIN dpu : dpu[i].nf_updated = 1

(***************************************************************************)
(* The end of the round loop.                                              *)
(***************************************************************************)
\* The steps after the round loop.
AfterLoop == {"print_node_levels", "print_lines", "dpu_free", "done"}

\* C16: the loop is left in a round if and only if none of the flags collected
\* in that round is set, whatever the flags of the rounds before were; in 2D the
\* test comes right after the collect, the global frontier still being empty.
\* host.dirty[k] is the number of flags the units had set when round k collected.
LeavesLoopIffNoFlagSet ==
  /\ pc = "test" =>
        /\ Len(host.dirty) = host.launches
        /\ Converged(opt.prt, host, opt.num_dpu) <=> (Last(host.dirty) = 0)
        /\ opt.prt = "_2D" => host.frontier = {}
  /\ pc = "broadcast" => Last(host.dirty) > 0
  /\ pc \in AfterLoop =>
        /\ Last(host.dirty) = 0
        /\ \A k \in 1..(Len(host.dirty) - 1) : host.dirty[k] > 0

\* A 2D run has left the loop in its fourth round, flags having been set in
\* the three rounds before.
LeavesLoopWitness ==
  /\ pc = "print_node_levels" /\ opt.prt = "_2D"
  /\ Len(host.dirty) = 4 /\ host.dirty[4] = 0 /\ host.dirty[1] > 1

(***************************************************************************)
(* The reduce step.                                                        *)
(***************************************************************************)
\* The units whose flag was set when the round collected.
DirtyUnits == {i \in DOMAIN dpu : dpu[i].nf_updated = 1}

\* The len_nf words of the next_frontier of unit i, as it stands in the unit.
UnitNf(i) == MramWords(dpu[i].next_frontier, host.m.len_nf)

\* C17: in Row, after the reduce of a round, the global next frontier is the
\* bitwise OR of the next_frontier of the units whose flag is set in this round,
\* word by word; the other units contribute no bit.
RowReduceIsUnionOfDirty ==
  (pc = "test" /\ opt.prt = "Row") =>
     host.frontier = UNION {UnitNf(i) : i \in DirtyUnits}

\* A Row round in which two dirty units report different next frontiers and
\* another unit is not dirty.
RowReduceWitness ==
  /\ pc = "test" /\ opt.prt = "Row"
  /\ \E i, j \in DirtyUnits : UnitNf(i) # UnitNf(j) /\ UnitNf(i) # {} /\ UnitNf(j) # {}
  /\ DirtyUnits # DOMAIN dpu

\* Words [off, off + w) of the global frontier, relative to word off.
FrontierSlice(off, w) == HostWords(host.frontier, host.frontier_alloc, off, w, {})

\* C18: in Col, after the fetch that is the reduce of a round, the words
\* [i * len_nf, (i + 1) * len_nf) of the global frontier are the next_frontier
\* of unit i when its flag is set in this round and zero when it is not; the
\* slices of the units follow one another and end where the frontier ends.
ColReduceIsConcatenation ==
  (pc = "test" /\ opt.prt = "Col") =>
     /\ \A i \in DOMAIN dpu :
          FrontierSlice(i * host.m.len_nf, host.m.len_nf) =
            IF i \in DirtyUnits THEN UnitNf(i) ELSE {}
     /\ opt.num_dpu * host.m.len_nf = host.m.len_cf
     /\ host.frontier_alloc >= host.m.len_cf
     /\ \A b \in host.frontier : b < 32 * host.frontier_alloc => b < 32 * host.m.len_cf

\* A Col round with slices of one word, fetched two words at a time: two
\* neighbouring units are dirty, another unit is not.
ColReduceWitness ==
  /\ pc = "test" /\ opt.prt = "Col"
  /\ host.m.len_nf = 1 /\ host.size_nf = 2
  /\ \E i \in DirtyUnits : (i + 1) \in DirtyUnits /\ UnitNf(i) # {} /\ UnitNf(i + 1) # {}
  /\ DirtyUnits # DOMAIN dpu

CfSlice(i) ==
  FrontierSlice(CASE opt.prt = "Row" -> i * host.m.len_cf
                  [] opt.prt = "Col" -> 0
                  [] opt.prt = "_2D" -> (i \div host.m.col_div) * host.m.len_cf,
                host.m.len_cf)

\* The words of the global frontier unit i's next_frontier is refreshed from:
\* the whole frontier in Row, the slice of its column of units in 2D.
NfSlice(i) ==
  FrontierSlice(IF opt.prt = "Row" THEN 0 ELSE (i % host.m.col_div) * host.m.len_nf,
                host.m.len_nf)

BroadcastStep == pc = "broadcast" /\ pc' = "launch"

\* C20: in the broadcast of every round that does not end the loop, the reduced
\* global frontier is written into the curr_frontier of each unit in Row and
\* 2D, and into the next_frontier of each unit in Col and 2D.
BroadcastAsListed ==
  [][BroadcastStep =>
       /\ opt.prt \in {"Row", "_2D"} => "curr_frontier" \in host'.pushed
       /\ opt.prt \in {"Col", "_2D"} => "next_frontier" \in host'.pushed]_vars

\* C20, amended: the reduced global frontier is written into the curr_frontier
\* of each unit in all three topologies, and into the next_frontier of each
\* unit in Row and 2D; in Col the next_frontier of a unit is left as it is.
BroadcastWritesFrontier ==
  [][BroadcastStep =>
       /\ host'.pushed = IF opt.prt = "Col" THEN {"curr_frontier"}
                         ELSE {"next_frontier", "curr_frontier"}
       /\ \A i \in DOMAIN dpu :
            /\ dpu'[i].level = host.level + 1
            /\ MramWords(dpu'[i].curr_frontier, host.m.len_cf) = CfSlice(i)
            /\ IF opt.prt = "Col"
               THEN dpu'[i].next_frontier = dpu[i].next_frontier
               ELSE MramWords(dpu'[i].next_frontier, host.m.len_nf) = NfSlice(i)]_vars

\* A Col run after a broadcast of a frontier that is not empty: curr_frontier
\* of a unit other than the first holds it, next_frontier was not pushed.
BroadcastWitness ==
  /\ pc = "launch" /\ opt.prt = "Col" /\ host.level = 2
  /\ host.pushed = {"curr_frontier"}
  /\ \E i \in DOMAIN dpu : i > 0 /\ dpu[i].curr_frontier # {}
                            /\ dpu[i].curr_frontier # dpu[i].next_frontier

(***************************************************************************)
(* The level counter.                                                      *)
(***************************************************************************)
\* The steps of a round after its launch.
InRound == {"collect", "fetch", "reduce", "test", "broadcast"}

\* C21: at the launch of round k every unit holds level k - 1: the host counter
\* starts at 0, goes up by one in each round that does not end the loop and is
\* then pushed to every unit, dirty or not; in the round that ends the loop it
\* is neither incremented nor pushed.  host.launches is the number of launches
\* made so far.
LevelIsRoundMinusOne ==
  /\ pc = "launch" =>
        /\ host.level = host.launches
        /\ \A i \in DOMAIN dpu : dpu[i].level = host.launches
  /\ pc \in InRound \cup AfterLoop =>
        /\ host.level = host.launches - 1
        /\ \A i \in DOMAIN dpu : dpu[i].level = host.launches - 1

\* The launch of round 4: every unit holds level 3, among them a unit whose
\* flag was not set in round 3.
LevelWitness ==
  /\ pc = "launch" /\ host.launches = 3
  /\ \E i \in DOMAIN dpu : dpu[i].nf_updated = 0 /\ dpu[i].level = 3
  /\ \E i \in DOMAIN dpu : dpu[i].nf_updated = 1 /\ dpu[i].level = 3

(***************************************************************************)
(* The population.                                                         *)
(***************************************************************************)
\* The state after the population loop, before the first launch.
Populated == pc = "launch" /\ host.launches = 0

\* Unit i is at row i / C and column i % C of the grid of units, C = col_div:
\* 1 in Row, num_dpu in Col.
GridRow(i) == i \div host.m.col_div

GridCol(i) == i % host.m.col_div

\* visited, node_levels and level of every unit are zero after the population.
RestIsZero ==
  \A i \in DOMAIN dpu :
    dpu[i].visited = {} /\ dpu[i].node_levels = <<>> /\ dpu[i].level = 0

\* C22: after the population, for every algorithm, the root bit is set in the
\* curr_frontier of exactly the units of grid column 0 in Row and 2D (of all
\* units in Col) and in the next_frontier of exactly the units of grid row 0;
\* every other bit and every visited and level entry is zero.
RootAsListed ==
  Populated =>
     /\ \A i \in DOMAIN dpu :
          /\ dpu[i].curr_frontier =
               IF opt.prt = "Col" \/ GridCol(i) = 0 THEN {0} ELSE {}
          /\ dpu[i].next_frontier = IF GridRow(i) = 0 THEN {0} ELSE {}
     /\ RestIsZero

\* C22, amended: after the population, for every algorithm, the root bit is set
\* in the curr_frontier of exactly the units of grid row 0 (unit 0 in Row, all
\* units in Col) and in the next_frontier of exactly the units of grid column 0
\* (all units in Row, unit 0 in Col); every other bit and every visited and
\* level entry is zero.
RootInFirstRowAndColumn ==
  Populated =>
     /\ \A i \in DOMAIN dpu :
          /\ dpu[i].curr_frontier = IF GridRow(i) = 0 THEN {0} ELSE {}
          /\ dpu[i].next_frontier = IF GridCol(i) = 0 THEN {0} ELSE {}
     /\ opt.prt = "Row" => host.m.col_div = 1
     /\ opt.prt = "Col" => host.m.col_div = opt.num_dpu
     /\ RestIsZero

\* 16 units in a 4 x 4 grid: unit 1 (row 0, column 1) has the root in
\* curr_frontier only, unit 4 (row 1, column 0) in next_frontier only.
RootWitness ==
  /\ Populated /\ opt.prt = "_2D" /\ opt.num_dpu = 16 /\ host.m.col_div = 4
  /\ dpu[1].curr_frontier = {0} /\ dpu[1].next_frontier = {}
  /\ dpu[4].curr_frontier = {} /\ dpu[4].next_frontier = {0}

(***************************************************************************)
(* Bits of earlier rounds.                                                 *)
(***************************************************************************)
\* The words of nf_tmp that belong to unit d, relative to the first.
NfTmpSlice(d) ==
  HostWords(host.nf_tmp, host.nf_tmp_alloc, d * host.m.len_nf, host.m.len_nf, {})

\* The host locals with the first bit of unit d's slice of nf_tmp set.
WithBitInSlice(d) == [host EXCEPT !.nf_tmp = @ \cup {32 * d * host.m.len_nf}]

\* The reduce gives the same frontier whatever the slice of a unit that was not
\* fetched in this round holds: it does not read it.
ReduceSkipsUnfetched ==
  \A d \in (DOMAIN dpu) \ DirtyUnits :
    ReduceNf(opt.prt, WithBitInSlice(d), opt.num_dpu).frontier =
      ReduceNf(opt.prt, host, opt.num_dpu).frontier

\* Word of the global frontier at which the reduce puts unit i's next_frontier.
ReduceOffset(i) ==
  CASE opt.prt = "Row" -> 0
    [] opt.prt = "Col" -> i * host.m.len_nf
    [] opt.prt = "_2D" -> (i % host.m.col_div) * host.m.len_nf

\* Every bit of the global frontier is a bit of the next_frontier of a unit
\* whose flag is set in this round.
OnlyBitsOfThisRound ==
  \A b \in host.frontier :
    \E i \in DirtyUnits : (b - 32 * ReduceOffset(i)) \in UnitNf(i)

\* The global frontier is all zero when the step that fills it starts: the
\* reduce in Row and 2D, the fetch in Col.
FrontierZeroBeforeReduce ==
  (pc = "reduce" \/ (pc = "fetch" /\ opt.prt = "Col")) => host.frontier = {}

\* C23: at the start of the reduce of every round the global frontier is all
\* zero, and the reduce reads the words of the fetch buffer only for the units
\* fetched in this round, so the frontier that is broadcast holds only bits the
\* units produced in this round.
ReduceReadsOnlyFetched ==
  /\ FrontierZeroBeforeReduce
  /\ pc = "reduce" => ReduceSkipsUnfetched
  /\ pc = "broadcast" => OnlyBitsOfThisRound

\* C23, amended: at the start of the reduce of every round the global frontier
\* is all zero; in 2D the reduce reads the words of the fetch buffer only for
\* the units fetched in this round, in Row it reads the words of every unit,
\* those of the units not fetched in this round being zero; so the frontier
\* that is broadcast holds only bits the units produced in this round.
NoLeftoverBits ==
  /\ FrontierZeroBeforeReduce
  /\ (pc = "reduce" /\ opt.prt = "_2D") => ReduceSkipsUnfetched
  /\ (pc = "reduce" /\ opt.prt = "Row") =>
        \A d \in (DOMAIN dpu) \ DirtyUnits : NfTmpSlice(d) = {}
  /\ pc = "broadcast" => OnlyBitsOfThisRound

\* The reduce of a 2D round after the first: the slice of a unit that is not
\* dirty in this round still holds what was fetched in an earlier round.
NoLeftoverWitness ==
  /\ pc = "reduce" /\ opt.prt = "_2D" /\ host.launches >= 2
  /\ \E d \in (DOMAIN dpu) \ DirtyUnits : NfTmpSlice(d) # {}
  /\ DirtyUnits # {}

(***************************************************************************)
(* The addresses of the buffers in the units.                              *)
(***************************************************************************)
\* C24: after the population loop, for every algorithm and topology, the
\* address of next_frontier and of curr_frontier is the same in every unit and
\* is the cached nf_addr and cf_addr, read from the last unit: visited,
\* next_frontier, curr_frontier and node_levels are inserted before the arrays
\* whose size differs from unit to unit.
FrontierAddressesAgree ==
  Populated =>
     /\ \A i \in DOMAIN dpu :
          /\ dpu[i].ptr.next_frontier = host.nf_addr
          /\ dpu[i].ptr.curr_frontier = host.cf_addr
          /\ dpu[i].ptr.visited = dpu[0].ptr.visited
          /\ dpu[i].ptr.node_levels = dpu[0].ptr.node_levels
     /\ host.nf_addr = dpu[opt.num_dpu - 1].ptr.next_frontier
     /\ host.cf_addr = dpu[opt.num_dpu - 1].ptr.curr_frontier
     /\ host.nf_addr # host.cf_addr

\* Units of an edge-centric run whose edge arrays differ in length: the second
\* array of the graph is at different addresses, the frontiers are not.
FrontierAddressesWitness ==
  /\ Populated /\ opt.alg = "Edge"
  /\ \E i, j \in DOMAIN dpu :
       /\ dpu[i].ptr.graph2 # dpu[j].ptr.graph2
       /\ dpu[i].p_used_mram_end # dpu[j].p_used_mram_end
       /\ dpu[i].ptr.next_frontier = dpu[j].ptr.next_frontier

(***************************************************************************)
(* load_coo's padding followed by partition_coo: the dimensions of the     *)
(* partitions of a padded graph.                                           *)
(***************************************************************************)
InitDims ==
  IdleMain /\ \E k \in 1..MaxPadUnits, num_nodes \in 0..MaxPadNodes, prt \in Partitions :
                fn = Call("load_and_partition",
                          [num_nodes |-> num_nodes, n |-> 8 * k, prt |-> prt])

\* load_coo sets num_rows = num_cols = the padded node count; partition_coo is
\* applied to that graph (here without edges) and bfs_* derives the lengths.
CallLoadAndPartition ==
  LET total == PadNodes(fn.arg.num_nodes, fn.arg.n)
      P == partition_coo(MkCOO(total, total, <<>>), fn.arg.n, fn.arg.prt)
  IN Returns("load_and_partition",
             [total |-> total, prts |-> P,
              meta |-> BfsMeta("TopDown", fn.arg.prt, P, fn.arg.n)])

SpecDims == InitDims /\ [][CallLoadAndPartition]_vars

\* The grid R x C of a topology on n units.
GridOf(prt, n) ==
  LET f == nearest_factors(n)
  IN IF prt = "Row" THEN <<n, 1>> ELSE IF prt = "Col" THEN <<1, n>>
     ELSE <<f.first, f.second>>

\* C25: for every topology and every unit count that is a positive multiple of
\* 8, the num_rows and num_cols that partition_coo sets on a graph padded by
\* load_coo are multiples of 32 and divide the padded node count exactly
\* (R * num_rows and C * num_cols are the padded node count, R x C being the
\* grid), so the frontier lengths num_rows / 32 and num_cols / 32 lose no node.
PartitionDimsExact ==
  Returned("load_and_partition") =>
    LET n == fn.arg.n
        g == GridOf(fn.arg.prt, n)
        m == fn.res.meta
    IN /\ g[1] * g[2] = n
       /\ \A p \in 0..(n - 1) :
            /\ fn.res.prts[p].num_rows % 32 = 0
            /\ fn.res.prts[p].num_cols % 32 = 0
            /\ g[1] * fn.res.prts[p].num_rows = fn.res.total
            /\ g[2] * fn.res.prts[p].num_cols = fn.res.total
       /\ 32 * m.len_cf = fn.res.prts[0].num_rows
       /\ 32 * m.len_nf = fn.res.prts[0].num_cols
       /\ 32 * m.len_cf * g[1] = fn.res.total
       /\ 32 * m.len_nf * g[2] = fn.res.total
       /\ fn.res.total >= fn.arg.num_nodes

\* A graph of 300 nodes on a grid of 4 x 6 units: 768 nodes after the padding,
\* 192 source nodes and 128 destination nodes in each unit.
PartitionDimsWitness ==
  /\ Returned("load_and_partition")
  /\ fn.arg = [num_nodes |-> 300, n |-> 24, prt |-> "_2D"]
  /\ fn.res.total = 768
  /\ fn.res.prts[23].num_rows = 192 /\ fn.res.prts[23].num_cols = 128

(***************************************************************************)
(* The termination of the round loop.  main() is one sequential process:   *)
(* whenever a step other than a failure is possible, it is taken.          *)
(***************************************************************************)
\* Graphs with nodes the root does not reach, cycles, a self-loop of the root,
\* and chains that cross the partitions.
LoopFiles ==
  {GraphFile(5, G5Edges),
   GraphFile(3, <<<<0, 0>>>>),
   GraphFile(40, <<<<0, 1>>, <<1, 2>>, <<2, 0>>, <<5, 6>>, <<6, 5>>, <<39, 38>>>>),
   GraphFile(250, <<<<0, 100>>, <<100, 200>>, <<200, 0>>, <<200, 249>>, <<7, 8>>>>),
   GraphFile(250, Backbone(250, 60))}

InitLoop ==
  /\ fn = NoCall
  /\ pc = "parse_args"
  /\ cli \in {FullCli(n, a, p) : n \in UnitCounts, a \in {"top", "bot", "edge"},
                                 p \in {"row", "col", "2d"}}
  /\ file \in LoopFiles
  /\ opt = DefaultOpt
  /\ fleet = NoFleet
  /\ coo = <<>> /\ prts = <<>> /\ dpu = <<>> /\ host = <<>>
  /\ out = NoOutput

\* The steps of main() that are not the failure of a fleet operation.
Progress ==
  \/ ParseArgs \/ DpuAlloc \/ DpuLoad \/ LoadCoo \/ PartitionCoo \/ Populate
  \/ Launch \/ CollectFlags \/ Fetch \/ Reduce \/ TestDone \/ Broadcast
  \/ FetchLevels \/ PrintLines \/ DpuFree

\* The position of main() at which a step of Progress is possible: every one
\* but the ends of the process.
ProgressSteps ==
  {"parse_args", "dpu_alloc", "dpu_load", "load_coo", "partition_coo", "populate",
   "launch", "collect", "fetch", "reduce", "test", "broadcast",
   "print_node_levels", "print_lines", "dpu_free"}

\* A step of Progress seen on pc alone: main() moves on to another position
\* that is not the abort of DPU_ASSERT.  Progress is enabled exactly at the
\* positions of ProgressSteps and each of its steps changes pc.
Advance ==
  /\ pc \in ProgressSteps
  /\ pc' \in (ProgressSteps \cup {"done", "exit", "crash"}) \ {pc}

SpecLoop == InitLoop /\ [][Next]_vars /\ WF_pc(Advance)

\* The steps of Advance are the steps of Progress.
AdvanceIsProgress == [][Progress <=> Advance]_vars

\* The nodes some unit has marked visited, by their global ids: the visited
\* bitmap of unit i is over the destination-node range of grid column i % C.
VisitedNodes ==
  UNION {{x + GridCol(i) * host.m.num_neighbors : x \in dpu[i].visited} : i \in DOMAIN dpu}

\* Every round but the last marks a node no unit had marked in the rounds before.
RoundsBounded ==
  pc \in InRound \cup AfterLoop \cup {"launch"} =>
     /\ host.launches <= Cardinality(VisitedNodes) + 1
     /\ VisitedNodes \subseteq 0..(coo.num_rows - 1)
     /\ host.launches <= coo.num_rows + 1

\* C26: on every finite graph, connected or not, with kernels that finish each
\* launch and set their flag in a round only when they mark a node they had not
\* visited before, the round loop of each topology eventually reaches Converged
\* and the program goes on to the aggregation of the results (unless a fleet
\* operation fails and ends the process); the number of rounds never exceeds
\* the padded node count plus one.
RoundLoopTerminates ==
  /\ (pc = "launch") ~> (pc = "print_node_levels" \/ pc = "abort")
  /\ []RoundsBounded
  /\ AdvanceIsProgress

\* The loop is left after three rounds on a graph with a cycle through the root
\* and nodes the root does not reach.
RoundLoopWitness ==
  /\ pc = "print_node_levels" /\ host.launches >= 3
  /\ coo.old = 40
  /\ Cardinality(VisitedNodes) < coo.old

(***************************************************************************)
(* The grid position of a unit in the partitioner and in the broadcast.    *)
(***************************************************************************)
\* What partition_coo computed for the loaded graph.
Dims == PartDims(coo, opt.num_dpu, opt.prt)

\* The source nodes and the destination nodes of partition p, global ids.
SourceRange(p) == RowOffset(Dims, p)..(RowOffset(Dims, p) + Dims.num_rows - 1)

DestRange(p) == ColOffset(Dims, p)..(ColOffset(Dims, p) + Dims.num_cols - 1)

\* The partitioner: partition p holds the edges from the source nodes of grid
\* row p / C to the destination nodes of grid column p % C, rebased.
PartitionerUsesGrid ==
  pc = "populate" =>
    \A p \in DOMAIN prts :
      /\ RowOffset(Dims, p) = (p \div Dims.col_div) * prts[p].num_rows
      /\ ColOffset(Dims, p) = (p % Dims.col_div) * prts[p].num_cols
      /\ Dims.row_div * prts[p].num_rows = coo.num_rows
      /\ Dims.col_div * prts[p].num_cols = coo.num_cols
      /\ \A k \in 0..(prts[p].num_edges - 1) :
           /\ prts[p].row_idxs[k] + RowOffset(Dims, p) \in SourceRange(p)
           /\ prts[p].col_idxs[k] + ColOffset(Dims, p) \in DestRange(p)
           /\ \E e \in RefEdges(coo) :
                e = <<prts[p].row_idxs[k] + RowOffset(Dims, p),
                      prts[p].col_idxs[k] + ColOffset(Dims, p)>>

\* The nodes of range S set in the global frontier, rebased to the range.
FrontierOf(S, base) == {v - base : v \in host.frontier \cap S}

\* The broadcast: the same grid position, for the metadata and the slices.
BroadcastUsesGrid ==
  [][BroadcastStep =>
       /\ host.m.col_div = Dims.col_div
       /\ \A i \in DOMAIN dpu :
            /\ MramWords(dpu'[i].curr_frontier, host.m.len_cf)
                 = FrontierOf(SourceRange(i), GridRow(i) * host.m.num_nodes)
            /\ "next_frontier" \in host'.pushed =>
                 MramWords(dpu'[i].next_frontier, host.m.len_nf)
                   = FrontierOf(DestRange(i), GridCol(i) * host.m.num_neighbors)]_vars

ReportedRange(i) == IF opt.alg = "TopDown" THEN SourceRange(i) ELSE DestRange(i)

\* nreal - n for unit i in the run.
BaseOf(i) == NodeBase(i, host.m.div, host.m.len_nl, host.m.total_nodes)

\* C28: in print_node_levels, for every algorithm and topology, entry n of unit
\* i is merged into the global id n + (((i / div) * len_nl) mod total_nodes),
\* which is below total_nodes and is the id of the n-th node of the range the
\* partitioner gave unit i (source nodes for top-down, destination nodes for
\* bottom-up and edge-centric); two units write the same global entry only when
\* they were given the same range.
MergeIdsAreGlobalIds ==
  /\ pc \in {"print_node_levels", "print_lines"} =>
       /\ host.m.total_nodes = coo.num_rows
       /\ \A i \in DOMAIN dpu :
            /\ BaseOf(i) = ((i \div host.m.div) * host.m.len_nl) % host.m.total_nodes
            /\ {n + BaseOf(i) : n \in 0..(host.m.len_nl - 1)} = ReportedRange(i)
            /\ \A n \in 0..(host.m.len_nl - 1) : n + BaseOf(i) < host.m.total_nodes
            /\ DOMAIN dpu[i].node_levels \subseteq 0..(host.m.len_nl - 1)
       /\ \A i, j \in DOMAIN dpu :
            ReportedRange(i) \cap ReportedRange(j) # {} => ReportedRange(i) = ReportedRange(j)
  /\ pc = "print_lines" =>
       \A x \in DOMAIN host.node_levels :
         \E i \in DOMAIN dpu :
           /\ x \in ReportedRange(i)
           /\ LevelAt(dpu[i].node_levels, x - BaseOf(i)) = host.node_levels[x]

\* A bottom-up run on a grid: units of different rows of the grid report the
\* same destination nodes, and a level is merged for a node that is not in the
\* range of the first unit.
MergeIdsWitness ==
  /\ pc = "print_lines" /\ opt.alg = "BottomUp" /\ opt.prt = "_2D"
  /\ \E i, j \in DOMAIN dpu :
       /\ i # j /\ BaseOf(i) = BaseOf(j) /\ BaseOf(i) > 0
       /\ \E x \in DOMAIN host.node_levels : x \in ReportedRange(i)

(***************************************************************************)
(* The host words of the bulk transfers of a round.                        *)
(***************************************************************************)
\* Words [off, off + w) lie in a buffer of alloc words.
InBuffer(alloc, off, w) == off >= 0 /\ off + w <= alloc

\* Words [off, off + w) lie in slice i of slices of len words.
InSlice(i, len, off, w) == off >= i * len /\ off + w <= (i + 1) * len

\* The words allocated for the buffer the next_frontiers are fetched into:
\* frontier in start_col, nf_tmp in start_row and start_2d.
FetchAlloc == IF opt.prt = "Col" THEN host.frontier_alloc ELSE host.nf_tmp_alloc

\* C29: in every round of every topology, each bulk transfer between a unit and
\* a host buffer touches only host words inside the allocated buffer and inside
\* the unit's own slice [i * len, (i + 1) * len): the fetch of the next_frontier
\* of unit i changes no word of another unit's slice and writes no word past the
\* end of the host buffer, and the broadcast reads no word past the end of the
\* global frontier, for every slice length, odd or even.
TransfersStayInSlices ==
  /\ pc = "fetch" =>
       \A i \in {j \in DOMAIN dpu : Dirty(host, j)} :
         /\ InBuffer(FetchAlloc, FetchOffset(host, i), host.size_nf)
         /\ InSlice(i, host.m.len_nf, FetchOffset(host, i), host.size_nf)
  /\ pc = "broadcast" =>
       \A i \in DOMAIN dpu :
         /\ InBuffer(host.frontier_alloc, CfOffset(opt.prt, host, i), host.size_cf)
         /\ "next_frontier" \in BroadcastTargets(opt.prt) =>
              InBuffer(host.frontier_alloc, NfSource(opt.prt, host, i), host.size_nf)
  /\ pc \in InRound \cup AfterLoop \cup {"launch"} => ~host.oob

(***************************************************************************)
(* dpu_insert_mram_array_u32 applied to one unit, buffer after buffer.     *)
(***************************************************************************)
MaxInsertLen == 5      \* arrays of 0..MaxInsertLen elements
MaxInserts == 3        \* at most this many arrays inserted into the unit

\* One call on a unit whose cursor is p_used_mram_end, for a source array of
\* src_len elements (calloc(length, 4) when src is 0): the symbol gets the
\* cursor, size bytes are copied from src, the cursor advances by size.
dpu_insert_mram_array_u32(p_used_mram_end, is_zero, src_len, length) ==
  LET alloc == IF is_zero THEN length ELSE src_len
      size == InsertSize(length)
  IN [ptr |-> p_used_mram_end, length |-> length, is_zero |-> is_zero, src_alloc |-> alloc,
      copied |-> size, p_used_mram_end |-> p_used_mram_end + size]

\* The unit before the first insertion: p_used_mram_end is 8-byte aligned in
\* the binary; 0 stands for it.
InitInsert ==
  IdleMain /\ fn = Call("dpu_insert_mram_array_u32", [p_used_mram_end |-> 0, inserted |-> <<>>])

\* A call with the array the caller has: length elements, or none (src = 0).
CallInsert ==
  /\ fn.op = "dpu_insert_mram_array_u32"
  /\ Len(fn.arg.inserted) < MaxInserts
  /\ \E length \in 0..MaxInsertLen, is_zero \in BOOLEAN :
       LET r == dpu_insert_mram_array_u32(fn.arg.p_used_mram_end, is_zero, length, length)
       IN fn' = [fn EXCEPT !.arg = [p_used_mram_end |-> r.p_used_mram_end,
                                    inserted |-> Append(fn.arg.inserted, r)]]
  /\ UNCHANGED mainvars

SpecInsert == InitInsert /\ [][CallInsert]_vars

\* The cursor stays 8-byte aligned and behind every inserted buffer, and the
\* buffers of the unit do not overlap.
InsertedBuffersDisjoint ==
  fn.op = "dpu_insert_mram_array_u32" =>
    LET B == fn.arg.inserted
    IN /\ fn.arg.p_used_mram_end % 8 = 0
       /\ \A k \in DOMAIN B :
            /\ B[k].ptr % 8 = 0
            /\ B[k].ptr + 4 * B[k].length <= fn.arg.p_used_mram_end
            /\ \A j \in DOMAIN B : j < k => B[j].ptr + 4 * B[j].length <= B[k].ptr

\* C30: dpu_insert_mram_array_u32 reads at most length 32-bit elements from
\* the source buffer it is given and advances the cursor of the unit to an
\* 8-byte-aligned address past the inserted buffer, for every length, odd or
\* even: consecutive buffers of a unit never overlap and no host memory beyond
\* the source array is copied.
InsertReadsOnlySource ==
  /\ InsertedBuffersDisjoint
  /\ fn.op = "dpu_insert_mram_array_u32" =>
       \A k \in DOMAIN fn.arg.inserted :
         /\ fn.arg.inserted[k].copied <= 4 * fn.arg.inserted[k].length
         /\ fn.arg.inserted[k].copied <= 4 * fn.arg.inserted[k].src_alloc

====
